---- MODULE Spec2Model ----
(***************************************************************************)
(* Download orchestration of the SilentMode server and client agent.       *)
(*                                                                         *)
(* The server's DownloadService exists in two variants: the in-memory one  *)
(* (server/src/services/download.service.ts, a Map of records) and the     *)
(* database one (the second DownloadService of                             *)
(* server/src/services/broker.service.ts, rows of the sqlite table of      *)
(* DBService).  The variable `variant` is fixed by Init and selects which  *)
(* of the two a behaviour runs, so every property is checked against both. *)
(***************************************************************************)
EXTENDS Integers, Sequences, FiniteSets, TLC

(* ------------------------------ bounds --------------------------------- *)

\* number of triggerDownload calls, hence of downloadIds ever generated
MaxDownloads == 1
\* object and file sizes range over 1..MaxSize
MaxSize == 2
\* concurrent invocations of handleUploadComplete (the subscription callback
\* of startServer does not await the handler, so invocations overlap)
MaxHandlers == 2
\* concurrent invocations of the agent's handleUploadCommand (the command
\* callback of startClient does not await it either)
MaxUploads == 2
\* the clock advances in steps of TickSeconds up to MaxNow
TickSeconds == 600
MaxNow == 1200
\* downloadIds an agent may be sent Commands for
MaxTransfers == 2
\* API calls (HTTP requests) suspended at an await at any one time
MaxCalls == 2
\* file names are made of up to MaxSegments runs of one character, each run
\* of length 1 or, for some characters, LongRun
MaxSegments == 3
LongRun == 127

(* --------------------------- program constants ------------------------- *)

\* PRESIGNED_EXPIRES_SEC || "900"
presignedExpiresSeconds == 900
\* UploaderService.maxRetries, UploaderService.baseDelay (ms)
maxRetries == 5
baseDelay == 1000
\* sanitizeFilename: if (s.length > 128) s = s.slice(0, 128)
maxNameLength == 128
\* Joi.string().max(255) of originalFilename
maxOriginalFilename == 255

(* ------------------------------ domains -------------------------------- *)

Variants == {"mem", "db"}
DownloadIds == 1..MaxDownloads
TransferIds == 1..MaxTransfers
Handlers == 1..MaxHandlers
Uploads == 1..MaxUploads
Calls == 1..MaxCalls
Sizes == 1..MaxSize
ClientIds == {"client-1"}
\* presigned PUT URLs the object store may sign (the write credential)
Urls == {"put-url-a", "put-url-b"}
\* contents a file on an agent may have: its size and its SHA-256
FileContents == { [size |-> n, sha256 |-> <<"sha256 of file", n>>] : n \in Sizes }
\* message of the error a failed upload attempt throws (axios, fs)
UploadErrors == {"Network Error", "File not found"}
\* message of the error a failed publish throws (redis)
PublishErrorMessage == "publish error"

\* message of an error thrown by the object store client (not NotFound)
StorageErrorMessage == "storage error"

\* values of optional fields that are undefined
NoUrl == ""
NoSha == <<>>
NoError == <<>>
NoRecord == [status |-> "none"]
NoEvent == [event |-> "none"]
NoCommand == [cmd |-> "none"]
NoFile == [size |-> 0, sha256 |-> NoSha]
NoOut == [op |-> "none"]
NoScenario == [phase |-> "setup"]

\* what a statObject call of the object store client can answer: the stat of
\* the object, a NotFound error, or any other error
StatAnswers ==
  [kind : {"ok"}, size : Sizes] \cup [kind : {"notfound", "throws"}, size : {0}]

(* ------------------------------ state ---------------------------------- *)

VARIABLES
  variant,    \* which DownloadService runs: "mem" or "db"
  nextId,     \* the next downloadId uuidv4 yields (ids are never reused)
  records,    \* downloadId -> DownloadRecord (Map entry / table row) or NoRecord
  objects,    \* downloadId of the object key -> size of the stored object, 0 = none
  commands,   \* UploadCommands published on commands:<clientId>
  handlers,   \* invocation of handleUploadComplete -> its position and locals
  calls,      \* API call suspended at an await -> its position and locals
  events,     \* UploadEvents published on events:server and not yet delivered
  now,        \* the wall clock (Date.now()), in seconds
  active,     \* the agent's activeDownloads set
  uploads,    \* invocation of handleUploadCommand -> its position and locals
  out,        \* what the step just taken returned to its caller: the HTTP
              \* response of an API call, the way a handler invocation ended;
              \* NoOut after a step that returns nothing
  scen        \* bookkeeping of the scenario specifications (SpecTwice,
              \* SpecRace): the scenario's phase, its events and the record
              \* values to compare with; no action of the program touches it

vars == <<variant, nextId, records, objects, commands, handlers, calls, events,
          now, active, uploads, out, scen>>

\* the agent's own state
agentVars == <<active, uploads>>

(* --------------------------- sanitizeFilename -------------------------- *)

\* a file name is a sequence of characters; the characters that occur stand
\* for the classes the function tells apart: lower and upper case letters,
\* digits, '.', '_', '-', whitespace, the separators '/' and '\', and
\* anything else
Chars == {"a", "B", "7", ".", "_", "-", " ", "\t", "/", "\\", "#"}
Whitespace == {" ", "\t"}
Separators == {"/", "\\"}
\* [A-Za-z0-9._-]
AllowedChars == {"a", "b", "B", "7", ".", "_", "-"}
\* originalFilename undefined
NoName == <<"undefined">>
\* the fallback "file"
File == <<"f", "i", "l", "e">>

Run(ch, n) == [i \in 1..n |-> ch]
RECURSIVE Concat(_)
Concat(runs) == IF runs = <<>> THEN <<>> ELSE Head(runs) \o Concat(Tail(runs))
\* the characters that occur in long runs: an allowed one, a deleted one
\* and whitespace
LongChars == {"a", "#", " "}
Runs == {Run(ch, 1) : ch \in Chars} \cup {Run(ch, LongRun) : ch \in LongChars}
\* the file names sanitizeFilename is given: every string, the empty one and
\* those longer than the request schema admits included
Names ==
  {NoName} \cup UNION { { Concat(segs) : segs \in [1..k -> Runs] } : k \in 0..MaxSegments }

\* mutant of ToLowerCase: letters keep their case
ToLowerCaseNever(s) == s

\* s.toLowerCase()
ToLowerCase(s) == [i \in 1..Len(s) |-> IF s[i] = "B" THEN "b" ELSE s[i]]

\* name.split(/[\\/]/).pop(): the text after the last separator
Basename(name) ==
  LET seps == {i \in 1..Len(name) : name[i] \in Separators}
      last == IF seps = {} THEN 0 ELSE CHOOSE i \in seps : \A j \in seps : j <= i
  IN SubSeq(name, last + 1, Len(name))

\* base.replace(/\s+/g, "_"): every maximal run of whitespace becomes one '_'
ReplaceWhitespace(s) ==
  LET marked == [i \in 1..Len(s) |->
                   IF s[i] \notin Whitespace THEN s[i]
                   ELSE IF i > 1 /\ s[i - 1] \in Whitespace THEN "" ELSE "_"]
  IN SelectSeq(marked, LAMBDA c : c # "")

\* s.replace(/[^A-Za-z0-9._-]/g, "")
RemoveDisallowed(s) == SelectSeq(s, LAMBDA c : c \in AllowedChars)

\* s.slice(0, n)
Slice(s, n) == SubSeq(s, 1, IF Len(s) > n THEN n ELSE Len(s))

\* mutant of sanitizeFilename: the name is cut to length before the
\* characters that are not allowed are deleted
SanitizeTruncatingFirst(name) ==
  IF name = NoName \/ name = <<>> THEN File
  ELSE LET base == Basename(name) IN
       IF base = <<>> THEN File
       ELSE LET s == ToLowerCase(RemoveDisallowed(
                       Slice(ReplaceWhitespace(base), maxNameLength)))
            IN IF s = <<>> THEN File ELSE s

\* sanitizeFilename(name)
sanitizeFilename(name) ==
  IF name = NoName \/ name = <<>> THEN File
  ELSE LET base == Basename(name) IN
       IF base = <<>> THEN File
       ELSE LET s == Slice(ToLowerCase(RemoveDisallowed(ReplaceWhitespace(base))),
                           maxNameLength)
            IN IF s = <<>> THEN File ELSE s

(* ------------------------------ helpers -------------------------------- *)

\* objectKey of a new record: `silentmode-uploads/${clientId}/${downloadId}.bin`
\* in memory (no file name is taken), with a database
\* `${clientId}/${downloadId}-${sanitizedName}`
ObjectKeyNamed(v, clientId, downloadId, originalFilename) ==
  IF v = "mem"
    THEN <<"silentmode-uploads", clientId, downloadId, ".bin">>
    ELSE <<clientId, downloadId, sanitizeFilename(originalFilename)>>

\* the text of an objectKey, as the template literal puts it together: the
\* clientId and the downloadId are one piece each, the sanitized name is its
\* characters
KeyText(v, objectKey) ==
  IF v = "mem"
    THEN <<objectKey[1], "/", objectKey[2], "/", ToString(objectKey[3]), objectKey[4]>>
    ELSE <<objectKey[1], "/", ToString(objectKey[2]), "-">> \o objectKey[3]

\* the objectKey of a request that carries no originalFilename
ObjectKey(v, clientId, downloadId) == ObjectKeyNamed(v, clientId, downloadId, NoName)

\* the object an object key names: keys embed the downloadId
KeyId(objectKey) == IF Len(objectKey) = 4 THEN objectKey[3] ELSE objectKey[2]

\* the DownloadRecord / the row that triggerDownload persists; the table has
\* no column for the presigned URL or for an error
NewRecord(v, clientId, objectKey, url, expiresAt, createdAt) ==
  [ status       |-> "pending",
    clientId     |-> clientId,
    objectKey    |-> objectKey,
    presignedUrl |-> IF v = "mem" THEN url ELSE NoUrl,
    expiresAt    |-> expiresAt,
    size         |-> 0,
    sha256       |-> NoSha,
    error        |-> NoError,
    createdAt    |-> createdAt,
    updatedAt    |-> createdAt ]

UploadCommand(clientId, downloadId, objectKey, url, expiresAt) ==
  [ cmd |-> "upload", clientId |-> clientId, downloadId |-> downloadId,
    objectKey |-> objectKey, presignedUrl |-> url, expiresAt |-> expiresAt ]

\* the upload_complete event the agent publishes for an uploaded file
CompleteEvent(downloadId, f) ==
  [ event |-> "upload_complete", downloadId |-> downloadId,
    size |-> f.size, sha256 |-> f.sha256 ]

\* the upload_failed event publishFailedEvent publishes
FailedEvent(downloadId, reason) ==
  [ event |-> "upload_failed", downloadId |-> downloadId, reason |-> reason ]

\* `Upload failed after ${maxRetries} attempts: ${lastError.message}`
UploadFailure(msg) == <<"Upload failed after attempts:", maxRetries, msg>>

\* the reasons of the failed events an agent publishes: the expiry, the
\* last error of an upload given up, the error of the complete event's publish
Reasons ==
  {<<"Presigned URL expired">>, <<PublishErrorMessage>>}
    \cup {UploadFailure(m) : m \in UploadErrors}

\* what uploadFile may return: size is the answer of statSync, taken before
\* the read stream is created, sha256 the digest of the bytes the stream read
\* afterwards; the file may have changed in between
UploadResults ==
  { [size |-> n, sha256 |-> f.sha256] : n \in Sizes, f \in FileContents }

CompleteEvents == { CompleteEvent(d, r) : d \in DownloadIds, r \in UploadResults }
FailedEvents == { FailedEvent(d, r) : d \in DownloadIds, r \in Reasons }
UploadEvents == CompleteEvents \cup FailedEvents

\* an invocation slot: pc is the await the invocation is suspended at
\* ("idle": no invocation), ev its event, metadata its local `metadata` once
\* getObjectMetadata has answered, wrote whether its write of "uploaded" has
\* taken effect
NoStat == [kind |-> "none", size |-> 0]
IdleHandler == [pc |-> "idle", ev |-> NoEvent, metadata |-> NoStat, wrote |-> FALSE]

\* an API call: pc is the await the call is suspended at ("idle": none), op
\* the service function, id its downloadId; a triggerDownload call holds the
\* locals clientId, objectKey, presignedUrl (url), expiresAt and now
\* (createdAt), a getArtifactUrl call the object key of the record it read
IdleCall ==
  [pc |-> "idle", op |-> "none", id |-> 0, clientId |-> "", objectKey |-> <<>>,
   url |-> NoUrl, expiresAt |-> 0, createdAt |-> 0]

\* an invocation slot of the agent's handleUploadCommand: pc the await it is
\* suspended at, cmd its command, attempt the loop counter of
\* uploadFileWithRetry, delay the sleep in progress (ms), result what
\* uploadFile returned, lastError the message of the error the last attempt
\* threw, reason the reason of the failed event to publish; slept is the sum
\* of the sleeps so far (ms).  The locals of uploadFile, where an attempt is
\* followed chunk by chunk: open the attempt whose read stream is open,
\* stat the size statSync answered, read the chunks
\* the stream has emitted (to the request body and to the hash alike), hash
\* the chunks that hash.update was given
IdleUpload ==
  [pc |-> "idle", cmd |-> NoCommand, attempt |-> 0, delay |-> 0,
   result |-> NoFile, lastError |-> "", reason |-> NoError, slept |-> 0,
   open |-> 0, stat |-> 0, read |-> <<>>, hash |-> <<>>]

(* ------------------------------ Init ----------------------------------- *)

Init ==
  /\ variant \in Variants
  /\ nextId = 1
  /\ records = [d \in DownloadIds |-> NoRecord]
  /\ objects = [d \in DownloadIds \cup TransferIds |-> 0]
  /\ commands = {}
  /\ handlers = [h \in Handlers |-> IdleHandler]
  /\ calls = [c \in Calls |-> IdleCall]
  /\ events = {}
  /\ now = 0
  /\ active = {}
  /\ uploads = [u \in Uploads |-> IdleUpload]
  /\ out = NoOut
  /\ scen = NoScenario

(* ------------------------- object store -------------------------------- *)

\* client.statObject(bucket, objectKey) at this moment: the stored object's
\* stat or NotFound, and at any time possibly another error
StatObject(objectKey) ==
  { IF objects[KeyId(objectKey)] # 0
      THEN [kind |-> "ok", size |-> objects[KeyId(objectKey)]]
      ELSE [kind |-> "notfound", size |-> 0],
    [kind |-> "throws", size |-> 0] }

\* a PUT through a presigned URL stores an object of some size under the key
\* of a record (whoever holds the URL may PUT, any number of times)
StorePut(d, size) ==
  /\ records[d] # NoRecord
  /\ objects[d] # size
  /\ objects' = [objects EXCEPT ![d] = size]
  /\ out' = NoOut
  /\ UNCHANGED <<variant, calls, nextId, records, commands, handlers, events, now, agentVars>>

\* an object is removed from the bucket (operator, lifecycle rule)
StoreRemove(d) ==
  /\ objects[d] # 0
  /\ objects' = [objects EXCEPT ![d] = 0]
  /\ out' = NoOut
  /\ UNCHANGED <<variant, calls, nextId, records, commands, handlers, events, now, agentVars>>

(* ------------------------- triggerDownload ----------------------------- *)

\* triggerDownloadSchema: originalFilename is optional, a non-empty string
\* of at most 255 characters
SchemaAccepts(originalFilename) ==
  \/ originalFilename = NoName
  \/ Len(originalFilename) >= 1 /\ Len(originalFilename) <= maxOriginalFilename

FreeCall ==
  IF \E c \in Calls : calls[c].pc = "idle"
    THEN CHOOSE c \in Calls :
           /\ calls[c].pc = "idle"
           /\ \A w \in Calls : calls[w].pc = "idle" => c <= w
    ELSE 0

\* the call is suspended at the await `pc`
AwaitCall(c, pc) == [calls EXCEPT ![c].pc = pc]

\* triggerDownload throws: the controller's catch answers HTTP 500
TriggerThrows(c, what) ==
  /\ calls' = [calls EXCEPT ![c] = IdleCall]
  /\ out' = [op |-> "triggerDownload", id |-> calls[c].id, result |-> "error",
             thrown |-> what]

\* mutant of Persist: nothing is stored
PersistNothing(d, rec) == records

\* this.downloads.set(downloadId, record) / the INSERT of createDownload
Persist(d, rec) == [records EXCEPT ![d] = rec]

\* POST /download/:clientId: the controller validates the body (HTTP 400 and
\* nothing else when the schema rejects it) and calls triggerDownload, which
\* draws the id, builds the key, reads the clock and awaits
\* generatePresignedPutUrl
TriggerDownload(clientId, originalFilename) ==
  /\ nextId <= MaxDownloads
  /\ IF ~SchemaAccepts(originalFilename)
       THEN /\ out' = [op |-> "triggerDownload", id |-> 0, result |-> "invalid",
                       thrown |-> "nothing"]
            /\ UNCHANGED <<nextId, calls>>
       ELSE /\ FreeCall # 0
            /\ nextId' = nextId + 1
            /\ calls' = [calls EXCEPT ![FreeCall] =
                 [pc |-> "presignPut", op |-> "triggerDownload", id |-> nextId,
                  clientId |-> clientId,
                  objectKey |-> ObjectKeyNamed(variant, clientId, nextId, originalFilename),
                  url |-> NoUrl, expiresAt |-> now + presignedExpiresSeconds,
                  createdAt |-> now]]
            /\ out' = NoOut
  /\ UNCHANGED <<variant, records, objects, commands, handlers, events, now, agentVars>>

\* a trigger request that carries no originalFilename
Trigger(clientId) == TriggerDownload(clientId, NoName)

\* mutant of PresignPut: the record is stored whether or not the URL was signed
PresignPutPersistsFirst(c, url, ok) ==
  /\ calls[c].pc = "presignPut"
  /\ records' = Persist(calls[c].id,
                   NewRecord(variant, calls[c].clientId, calls[c].objectKey, url,
                             calls[c].expiresAt, calls[c].createdAt))
  /\ IF ~ok
       THEN TriggerThrows(c, "presign throws")
       ELSE /\ calls' = [calls EXCEPT ![c].pc = "publishCommand", ![c].url = url]
            /\ out' = NoOut
  /\ UNCHANGED <<variant, nextId, objects, commands, handlers, events, now, agentVars>>

\* await storageService.generatePresignedPutUrl(...) settles: when it throws
\* the call ends; else in memory the record is stored (createdAt and
\* expiresAt as read before the await) and publishCommand awaited, with a
\* database createDownload is awaited
PresignPut(c, url, ok) ==
  /\ calls[c].pc = "presignPut"
  /\ IF ~ok
       THEN TriggerThrows(c, "presign throws") /\ UNCHANGED records
       ELSE IF variant = "mem"
         THEN /\ records' = Persist(calls[c].id,
                   NewRecord(variant, calls[c].clientId, calls[c].objectKey, url,
                             calls[c].expiresAt, calls[c].createdAt))
              /\ calls' = [calls EXCEPT ![c].pc = "publishCommand", ![c].url = url]
              /\ out' = NoOut
         ELSE /\ calls' = [calls EXCEPT ![c].pc = "createDownload", ![c].url = url]
              /\ out' = NoOut
              /\ UNCHANGED records
  /\ UNCHANGED <<variant, nextId, objects, commands, handlers, events, now, agentVars>>

\* await dbService.createDownload(...) settles: the row is inserted
\* (created_at and updated_at default to CURRENT_TIMESTAMP) and publishCommand
\* awaited, or the call ends with the error
CreateDownload(c, ok) ==
  /\ calls[c].pc = "createDownload"
  /\ IF ~ok
       THEN TriggerThrows(c, "createDownload throws") /\ UNCHANGED records
       ELSE /\ records' = Persist(calls[c].id,
                   NewRecord(variant, calls[c].clientId, calls[c].objectKey,
                             calls[c].url, calls[c].expiresAt, now))
            /\ calls' = AwaitCall(c, "publishCommand")
            /\ out' = NoOut
  /\ UNCHANGED <<variant, nextId, objects, commands, handlers, events, now, agentVars>>

\* mutant of PublishCommand: a failed publish removes the record again
PublishCommandRollsBack(c, ok) ==
  /\ calls[c].pc = "publishCommand"
  /\ IF ~ok
       THEN /\ TriggerThrows(c, "publish throws")
            /\ records' = [records EXCEPT ![calls[c].id] = NoRecord]
            /\ UNCHANGED commands
       ELSE /\ commands' = commands \cup
                 {UploadCommand(calls[c].clientId, calls[c].id, calls[c].objectKey,
                                calls[c].url, calls[c].expiresAt)}
            /\ calls' = [calls EXCEPT ![c] = IdleCall]
            /\ out' = [op |-> "triggerDownload", id |-> calls[c].id, result |-> "ok",
                       thrown |-> "nothing"]
            /\ UNCHANGED records
  /\ UNCHANGED <<variant, nextId, objects, handlers, events, now, agentVars>>

\* await brokerService.publishCommand(clientId, command) settles: the command
\* is on the channel and the call returns the record (HTTP 200), or the call
\* ends with the error, the record staying as it is
PublishCommand(c, ok) ==
  /\ calls[c].pc = "publishCommand"
  /\ IF ~ok
       THEN TriggerThrows(c, "publish throws") /\ UNCHANGED commands
       ELSE /\ commands' = commands \cup
                 {UploadCommand(calls[c].clientId, calls[c].id, calls[c].objectKey,
                                calls[c].url, calls[c].expiresAt)}
            /\ calls' = [calls EXCEPT ![c] = IdleCall]
            /\ out' = [op |-> "triggerDownload", id |-> calls[c].id, result |-> "ok",
                       thrown |-> "nothing"]
  /\ UNCHANGED <<variant, nextId, records, objects, handlers, events, now, agentVars>>

(* ----------------------- handleUploadComplete -------------------------- *)

\* mutant of MarkUploaded: the write also rewrites the record's objectKey
MarkUploadedRekeyed(rec, e) ==
  [rec EXCEPT !.status = "uploaded", !.size = e.size, !.sha256 = e.sha256,
              !.objectKey = <<"key of the event">>]

\* record.status = "uploaded" with the event's size and sha256
\* (updateDownloadStatus(id, "uploaded", {size, sha256, content_type}))
MarkUploaded(rec, e) ==
  [rec EXCEPT !.status = "uploaded", !.size = e.size, !.sha256 = e.sha256,
              !.updatedAt = now]

\* record.status = "failed"; record.error = ...; record.updatedAt = new Date()
\* in memory; the table has no error column: updateDownloadStatus(id, "failed")
\* writes the status and updated_at = CURRENT_TIMESTAMP
MarkFailed(v, rec, err) ==
  IF v = "mem"
    THEN [rec EXCEPT !.status = "failed", !.error = err, !.updatedAt = now]
    ELSE [rec EXCEPT !.status = "failed", !.updatedAt = now]

\* a verification that finds the object missing, the metadata missing or the
\* size different: in memory record.status and record.error are set and the
\* handler returns (updatedAt is not assigned on these paths); with a
\* database it is updateDownloadStatus(id, "failed") as on every path
FailVerification(v, rec, err) ==
  IF v = "mem"
    THEN [rec EXCEPT !.status = "failed", !.error = err]
    ELSE MarkFailed(v, rec, err)

\* mutant of MarkVerified: the last write is lost
MarkVerifiedLost(rec) == rec

\* record.status = "verified"
MarkVerified(rec) == [rec EXCEPT !.status = "verified", !.updatedAt = now]

\* mutant of SizeMismatch: only an object smaller than reported is rejected
SizeMismatchOnlySmaller(metaSize, e) == metaSize < e.size

\* metadata.size !== event.size
SizeMismatch(metaSize, e) == metaSize # e.size

\* `if (!record)`: no record under the event's downloadId
UnknownDownload(rec) == rec = NoRecord

\* invocations are anonymous: a new one takes the first slot not in use
FreeHandler ==
  IF \E h \in Handlers : handlers[h].pc = "idle"
    THEN CHOOSE h \in Handlers :
           /\ handlers[h].pc = "idle"
           /\ \A g \in Handlers : handlers[g].pc = "idle" => h <= g
    ELSE 0

\* the invocation goes on to its next await
Await(h, pc) ==
  /\ handlers' = [handlers EXCEPT ![h].pc = pc]
  /\ out' = NoOut

\* handleUploadComplete returns to the subscription callback: `how` is
\* "unknown" after the unknown-id warning and "handled" otherwise (the
\* function has no throwing path); its locals are gone
Return(h, e, how) ==
  /\ handlers' = [handlers EXCEPT ![h] = IdleHandler]
  /\ out' = [op |-> "handleUploadComplete", id |-> e.downloadId, result |-> how]

\* The subscription callback invokes handleUploadComplete(event); the code
\* runs up to its first await.  In memory that is the lookup, the write of
\* "uploaded" (or of "failed" for an upload_failed event, which then returns);
\* with a database the first await is dbService.getDownload.
HandleStart(h, e) ==
  LET d == e.downloadId
      rec == records[d]
  IN
  /\ h = FreeHandler
  /\ IF variant = "db"
       THEN /\ handlers' = [handlers EXCEPT ![h] = [IdleHandler EXCEPT !.pc = "get", !.ev = e]]
            /\ out' = NoOut
            /\ UNCHANGED records
       ELSE IF UnknownDownload(rec)
         THEN /\ Return(h, e, "unknown")
              /\ UNCHANGED records
       ELSE IF e.event = "upload_complete"
         THEN /\ records' = [records EXCEPT ![d] = MarkUploaded(rec, e)]
              /\ handlers' = [handlers EXCEPT ![h] =
                   [IdleHandler EXCEPT !.pc = "exists", !.ev = e, !.wrote = TRUE]]
              /\ out' = NoOut
         ELSE /\ records' = [records EXCEPT ![d] = MarkFailed(variant, rec, e.reason)]
              /\ Return(h, e, "handled")
  /\ UNCHANGED <<variant, calls, nextId, objects, commands, now, agentVars>>
  \* `events` is left to the caller: the channel the event arrived on

\* mutant of DbGetDownload: the `if (!record)` return is missing
DbGetDownloadNoCheck(h, ok) ==
  /\ variant = "db"
  /\ handlers[h].pc = "get"
  /\ IF ~ok THEN Await(h, "catch")
     ELSE IF handlers[h].ev.event = "upload_complete" THEN Await(h, "updUploaded")
     ELSE Await(h, "updFailed")
  /\ UNCHANGED <<variant, calls, nextId, records, objects, commands, events, now, agentVars>>

\* await dbService.getDownload(downloadId) completes (database variant)
DbGetDownload(h, ok) ==
  LET e == handlers[h].ev
      rec == records[e.downloadId]
  IN
  /\ variant = "db"
  /\ handlers[h].pc = "get"
  /\ IF ~ok THEN Await(h, "catch")
     ELSE IF UnknownDownload(rec) THEN Return(h, e, "unknown")
     ELSE IF e.event = "upload_complete" THEN Await(h, "updUploaded")
     ELSE Await(h, "updFailed")
  /\ UNCHANGED <<variant, calls, nextId, records, objects, commands, events, now, agentVars>>

\* await dbService.updateDownloadStatus(id, "uploaded", {...}) completes
DbSetUploaded(h, ok) ==
  LET e == handlers[h].ev
      d == e.downloadId
  IN
  /\ variant = "db"
  /\ handlers[h].pc = "updUploaded"
  /\ IF ok
       THEN /\ records' = [records EXCEPT ![d] = MarkUploaded(records[d], e)]
            /\ handlers' = [handlers EXCEPT ![h].pc = "exists", ![h].wrote = TRUE]
            /\ out' = NoOut
       ELSE /\ UNCHANGED records
            /\ Await(h, "catch")
  /\ UNCHANGED <<variant, calls, nextId, objects, commands, events, now, agentVars>>

\* await storageService.verifyObjectExists(objectKey) completes with `ans`
VerifyExists(h, ans) ==
  LET e == handlers[h].ev
      d == e.downloadId
  IN
  /\ handlers[h].pc = "exists"
  /\ ans \in StatObject(records[d].objectKey)
  /\ IF ans.kind = "ok"
       THEN /\ Await(h, "meta")
            /\ UNCHANGED records
       ELSE IF variant = "db"
         THEN /\ IF ans.kind = "throws" THEN Await(h, "catch") ELSE Await(h, "updFailed")
              /\ UNCHANGED records
         ELSE /\ records' = [records EXCEPT ![d] =
                   IF ans.kind = "throws"
                     THEN MarkFailed(variant, records[d], <<StorageErrorMessage>>)
                     ELSE FailVerification(variant, records[d],
                            <<"Object not found in storage after upload">>)]
              /\ Return(h, e, "handled")
  /\ UNCHANGED <<variant, calls, nextId, objects, commands, events, now, agentVars>>

\* the outcome of the checks on the metadata the store answered:
\* `!metadata` and `metadata.size !== event.size` fail the verification
Verdict(ans, e) ==
  IF ans.kind = "notfound" THEN "failed"
  ELSE IF SizeMismatch(ans.size, e) THEN "failed"
  ELSE "verified"

\* record.error of a failed verification in memory
VerifyError(ans, e) ==
  IF ans.kind = "throws" THEN <<StorageErrorMessage>>
  ELSE IF ans.kind = "notfound" THEN <<"Could not retrieve object metadata">>
  ELSE <<"Size mismatch: expected", e.size, "got", ans.size>>

\* await storageService.getObjectMetadata(objectKey) completes with `ans`;
\* in memory the verdict is written at once, with a database it decides
\* which updateDownloadStatus is awaited next
VerifyMetadata(h, ans) ==
  LET e == handlers[h].ev
      d == e.downloadId
  IN
  /\ handlers[h].pc = "meta"
  /\ ans \in StatObject(records[d].objectKey)
  /\ IF variant = "db"
       THEN /\ IF ans.kind = "throws"
                 THEN Await(h, "catch")
                 ELSE /\ handlers' = [handlers EXCEPT
                           ![h].pc = IF Verdict(ans, e) = "verified"
                                       THEN "updVerified" ELSE "updFailed",
                           ![h].metadata = ans]
                      /\ out' = NoOut
            /\ UNCHANGED records
       ELSE /\ records' = [records EXCEPT ![d] =
                 IF ans.kind = "throws"
                   THEN MarkFailed(variant, records[d], VerifyError(ans, e))
                 ELSE IF Verdict(ans, e) = "verified"
                   THEN MarkVerified(records[d])
                   ELSE FailVerification(variant, records[d], VerifyError(ans, e))]
            /\ Return(h, e, "handled")
  /\ UNCHANGED <<variant, calls, nextId, objects, commands, events, now, agentVars>>

\* await dbService.updateDownloadStatus(id, "failed" | "verified") completes
DbSetResult(h, ok) ==
  LET e == handlers[h].ev
      d == e.downloadId
  IN
  /\ variant = "db"
  /\ handlers[h].pc \in {"updFailed", "updVerified"}
  /\ IF ok
       THEN /\ records' = [records EXCEPT ![d] =
                 IF handlers[h].pc = "updVerified"
                   THEN MarkVerified(records[d])
                   ELSE MarkFailed(variant, records[d], NoError)]
            /\ Return(h, e, "handled")
       ELSE /\ UNCHANGED records
            /\ Await(h, "catch")
  /\ UNCHANGED <<variant, calls, nextId, objects, commands, events, now, agentVars>>

\* the row after the catch block's updateDownloadStatus(id, "failed"), whose
\* own error is ignored; an UPDATE of a row that does not exist changes nothing
CatchUpdate(rec, ok) ==
  IF ok /\ rec # NoRecord THEN MarkFailed("db", rec, NoError) ELSE rec

\* mutant of DbCatch: an error of the catch block's update is thrown on
DbCatchRethrows(h, ok) ==
  /\ variant = "db"
  /\ handlers[h].pc = "catch"
  /\ records' = [records EXCEPT ![handlers[h].ev.downloadId] = CatchUpdate(@, ok)]
  /\ Return(h, handlers[h].ev, IF ok THEN "handled" ELSE "raised")
  /\ UNCHANGED <<variant, calls, nextId, objects, commands, events, now, agentVars>>

\* catch (error) { try { await updateDownloadStatus(id, "failed") } catch {} }
DbCatch(h, ok) ==
  LET e == handlers[h].ev
      d == e.downloadId
  IN
  /\ variant = "db"
  /\ handlers[h].pc = "catch"
  /\ records' = [records EXCEPT ![d] = CatchUpdate(records[d], ok)]
  /\ Return(h, e, "handled")
  /\ UNCHANGED <<variant, calls, nextId, objects, commands, events, now, agentVars>>

(* ------------------- getDownloadStatus, getArtifactUrl ----------------- *)

\* the promise of a service function rejected
Rejected == [status |-> "rejected"]

\* DownloadService.getDownloadStatus: in memory the stored record itself (or
\* null), with a database an object built from the row's columns, or the
\* rejection of dbService.getDownload (dbOk: the query succeeded)
ServiceGetDownloadStatus(v, d, rec, dbOk) ==
  IF v = "db" /\ ~dbOk THEN Rejected
  ELSE IF rec = NoRecord THEN NoRecord
  ELSE IF v = "mem"
    THEN [ downloadId |-> d, clientId |-> rec.clientId, objectKey |-> rec.objectKey,
           status |-> rec.status, presignedUrl |-> rec.presignedUrl,
           expiresAt |-> rec.expiresAt, size |-> rec.size, sha256 |-> rec.sha256,
           error |-> rec.error, createdAt |-> rec.createdAt, updatedAt |-> rec.updatedAt ]
    ELSE [ downloadId |-> d, clientId |-> rec.clientId, objectKey |-> rec.objectKey,
           status |-> rec.status, size |-> rec.size, sha256 |-> rec.sha256,
           createdAt |-> rec.createdAt, updatedAt |-> rec.updatedAt ]

\* mutant of PublicRecord: the controller sends the record as it got it
PublicRecordUnstripped(r) == r

\* const { presignedUrl, ...publicRecord } = record
PublicRecord(r) == [f \in DOMAIN r \ {"presignedUrl"} |-> r[f]]

\* the controller's answer to GET /downloads/:downloadId: HTTP 500 when the
\* service rejects, 404 for null, else the record without its presignedUrl
StatusResponse(v, d, rec, dbOk) ==
  LET r == ServiceGetDownloadStatus(v, d, rec, dbOk)
  IN IF r = Rejected
       THEN [op |-> "getDownloadStatus", id |-> d, result |-> "error"]
     ELSE IF r = NoRecord
       THEN [op |-> "getDownloadStatus", id |-> d, result |-> "not found"]
       ELSE [op |-> "getDownloadStatus", id |-> d, result |-> "ok",
             body |-> PublicRecord(r)]

\* GET /downloads/:downloadId: in memory the service reads the Map and the
\* controller answers; with a database dbService.getDownload is awaited
GetStatus(d) ==
  /\ IF variant = "mem"
       THEN /\ out' = StatusResponse(variant, d, records[d], TRUE)
            /\ UNCHANGED calls
       ELSE /\ FreeCall # 0
            /\ calls' = [calls EXCEPT ![FreeCall] =
                 [IdleCall EXCEPT !.pc = "getDownload", !.op = "getDownloadStatus",
                                  !.id = d]]
            /\ out' = NoOut
  /\ UNCHANGED <<variant, nextId, records, objects, commands, handlers, events, now,
               agentVars>>

\* await dbService.getDownload(downloadId) of getDownloadStatus settles: the
\* controller answers with the row as it is now, or HTTP 500 when it rejects
StatusRead(c, ok) ==
  /\ calls[c].pc = "getDownload"
  /\ calls[c].op = "getDownloadStatus"
  /\ out' = StatusResponse(variant, calls[c].id, records[calls[c].id], ok)
  /\ calls' = [calls EXCEPT ![c] = IdleCall]
  /\ UNCHANGED <<variant, nextId, records, objects, commands, handlers, events, now,
               agentVars>>

\* mutant of ArtifactAvailable: an uploaded, unverified record passes too
ArtifactAvailableOnceUploaded(rec) ==
  rec # NoRecord /\ rec.status \in {"uploaded", "verified"}

\* `!record || record.status !== "verified"`: no URL is generated
ArtifactAvailable(rec) == rec # NoRecord /\ rec.status = "verified"

\* the controller's answer to GET /download/:downloadId/artifacts: `seen` is
\* the status of the record the service read ("none": no record, "unread":
\* the read failed), `asked` whether generatePresignedGetUrl was called
ArtifactResponse(d, result, seen, asked) ==
  [op |-> "getArtifactUrl", id |-> d, result |-> result, seen |-> seen,
   asked |-> asked]

\* the service has the record: null (HTTP 404) unless it is verified, else
\* generatePresignedGetUrl is awaited
ArtifactCheck(c, d, rec) ==
  IF ~ArtifactAvailable(rec)
    THEN /\ out' = ArtifactResponse(d, "not available", rec.status, FALSE)
         /\ calls' = [calls EXCEPT ![c] = IdleCall]
    ELSE /\ calls' = [calls EXCEPT ![c] =
              [IdleCall EXCEPT !.pc = "presignGet", !.op = "getArtifactUrl",
                               !.id = d, !.objectKey = rec.objectKey]]
         /\ out' = NoOut

\* GET /download/:downloadId/artifacts: in memory the service reads the Map
\* and checks the record; with a database dbService.getDownload is awaited
GetArtifactUrl(d) ==
  /\ IF variant = "mem" /\ ~ArtifactAvailable(records[d])
       THEN /\ out' = ArtifactResponse(d, "not available", records[d].status, FALSE)
            /\ UNCHANGED calls
       ELSE /\ FreeCall # 0
            /\ IF variant = "mem"
                 THEN ArtifactCheck(FreeCall, d, records[d])
                 ELSE /\ calls' = [calls EXCEPT ![FreeCall] =
                           [IdleCall EXCEPT !.pc = "getDownload",
                                            !.op = "getArtifactUrl", !.id = d]]
                      /\ out' = NoOut
  /\ UNCHANGED <<variant, nextId, records, objects, commands, handlers, events, now,
               agentVars>>

\* await dbService.getDownload(downloadId) of getArtifactUrl settles: the row
\* as it is now is checked, or the call ends with the error (HTTP 500)
ArtifactRead(c, ok) ==
  /\ calls[c].pc = "getDownload"
  /\ calls[c].op = "getArtifactUrl"
  /\ IF ok
       THEN ArtifactCheck(c, calls[c].id, records[calls[c].id])
       ELSE /\ out' = ArtifactResponse(calls[c].id, "error", "unread", FALSE)
            /\ calls' = [calls EXCEPT ![c] = IdleCall]
  /\ UNCHANGED <<variant, nextId, records, objects, commands, handlers, events, now,
               agentVars>>

\* mutant of PresignGet: the URL is kept on the record
PresignGetCaching(c, gatewayOk) ==
  /\ calls[c].pc = "presignGet"
  /\ out' = ArtifactResponse(calls[c].id, IF gatewayOk THEN "url" ELSE "error",
                             "verified", TRUE)
  /\ calls' = [calls EXCEPT ![c] = IdleCall]
  /\ records' = IF gatewayOk /\ records[calls[c].id] # NoRecord
                  THEN [records EXCEPT ![calls[c].id].presignedUrl = "get-url"]
                  ELSE records
  /\ UNCHANGED <<variant, nextId, objects, commands, handlers, events, now, agentVars>>

\* await storageService.generatePresignedGetUrl(objectKey) settles: the URL
\* signed for this call is returned (HTTP 200), or its error thrown (HTTP 500)
PresignGet(c, gatewayOk) ==
  /\ calls[c].pc = "presignGet"
  /\ out' = ArtifactResponse(calls[c].id, IF gatewayOk THEN "url" ELSE "error",
                             "verified", TRUE)
  /\ calls' = [calls EXCEPT ![c] = IdleCall]
  /\ UNCHANGED <<variant, nextId, records, objects, commands, handlers, events, now,
               agentVars>>

(* ------------------------------ clock ---------------------------------- *)

\* time passes
Tick ==
  /\ now < MaxNow
  /\ now' = now + TickSeconds
  /\ out' = NoOut
  /\ UNCHANGED <<variant, calls, nextId, records, objects, commands, handlers, events,
                 agentVars>>

(* ----------------------- agent: handleUploadCommand -------------------- *)

\* mutant of CommandValid: a missing presignedUrl goes unnoticed
CommandValidWithoutUrl(c) == c.downloadId # 0 /\ c.objectKey # <<>>

\* `!downloadId || !objectKey || !presignedUrl` is false
CommandValid(c) == c.downloadId # 0 /\ c.objectKey # <<>> /\ c.presignedUrl # NoUrl

\* mutant of Expired: the expiry check never fires
ExpiredNever(expiresAt, t) == FALSE

\* new Date(expiresAt) < new Date()
Expired(expiresAt, t) == expiresAt < t

\* mutant of Backoff: the delay grows linearly
BackoffLinear(attempt) == baseDelay * attempt

\* mutant of Backoff: the exponent is the attempt number
BackoffTwiceAsLong(attempt) == baseDelay * 2 ^ attempt

\* this.baseDelay * Math.pow(2, attempt - 1)
Backoff(attempt) == baseDelay * 2 ^ (attempt - 1)

FreeUpload ==
  IF \E u \in Uploads : uploads[u].pc = "idle"
    THEN CHOOSE u \in Uploads :
           /\ uploads[u].pc = "idle"
           /\ \A w \in Uploads : uploads[w].pc = "idle" => u <= w
    ELSE 0

\* what handleUploadCommand did, reported when it returns
Report(c, how, attempts, slept, sent) ==
  [op |-> "handleUploadCommand", id |-> c.downloadId, result |-> how,
   attempts |-> attempts, slept |-> slept, sent |-> sent]

\* mutant of Finish: the id stays in activeDownloads
FinishKeepsActive(u, sent) ==
  /\ uploads' = [uploads EXCEPT ![u] = IdleUpload]
  /\ UNCHANGED active
  /\ out' = Report(uploads[u].cmd, IF uploads[u].pc = "pubComplete" THEN "complete" ELSE "failed",
                   uploads[u].attempt, uploads[u].slept, sent)

\* handleUploadCommand returns after its last publish, `sent` events (0 or 1)
\* having been put on the channel; `finally` has removed the id from
\* activeDownloads when the try block had been entered
Finish(u, sent) ==
  /\ uploads' = [uploads EXCEPT ![u] = IdleUpload]
  /\ active' = IF uploads[u].pc = "pubExpired"
                 THEN active ELSE active \ {uploads[u].cmd.downloadId}
  /\ out' = Report(uploads[u].cmd, IF uploads[u].pc = "pubComplete" THEN "complete" ELSE "failed",
                   uploads[u].attempt, uploads[u].slept, sent)

\* mutant of AlreadyActive: any upload under way blocks a new Command
AlreadyActiveAny(c) == active # {}

\* mutant of AlreadyActive: the duplicate check is missing
AlreadyActiveNever(c) == FALSE

\* this.activeDownloads.has(downloadId)
AlreadyActive(c) == c.downloadId \in active

\* mutant of CommandReceive: the expiry is checked before activeDownloads
CommandReceiveExpiryFirst(u, c) ==
  /\ u = FreeUpload
  /\ IF ~CommandValid(c)
       THEN /\ out' = Report(c, "invalid", 0, 0, 0)
            /\ UNCHANGED <<active, uploads>>
       ELSE IF Expired(c.expiresAt, now)
         THEN /\ uploads' = [uploads EXCEPT ![u] =
                   [IdleUpload EXCEPT !.pc = "pubExpired", !.cmd = c,
                                      !.reason = <<"Presigned URL expired">>]]
              /\ out' = NoOut
              /\ UNCHANGED active
       ELSE IF AlreadyActive(c)
         THEN /\ out' = Report(c, "duplicate", 0, 0, 0)
              /\ UNCHANGED <<active, uploads>>
         ELSE /\ active' = active \cup {c.downloadId}
              /\ uploads' = [uploads EXCEPT ![u] =
                   [IdleUpload EXCEPT !.pc = "uploading", !.cmd = c, !.attempt = 1]]
              /\ out' = NoOut
  /\ UNCHANGED <<variant, calls, nextId, records, objects, commands, handlers, events, now>>

\* The command callback invokes handleUploadCommand(command): the guards run
\* in order (invalid, already active, expired), then the id is added to
\* activeDownloads and the first upload attempt is awaited.
CommandReceive(u, c) ==
  /\ u = FreeUpload
  /\ IF ~CommandValid(c) \/ AlreadyActive(c)
       THEN /\ out' = Report(c, IF ~CommandValid(c) THEN "invalid" ELSE "duplicate", 0, 0, 0)
            /\ UNCHANGED <<active, uploads>>
       ELSE IF Expired(c.expiresAt, now)
         THEN /\ uploads' = [uploads EXCEPT ![u] =
                   [IdleUpload EXCEPT !.pc = "pubExpired", !.cmd = c,
                                      !.reason = <<"Presigned URL expired">>]]
              /\ out' = NoOut
              /\ UNCHANGED active
         ELSE /\ active' = active \cup {c.downloadId}
              /\ uploads' = [uploads EXCEPT ![u] =
                   [IdleUpload EXCEPT !.pc = "uploading", !.cmd = c, !.attempt = 1]]
              /\ out' = NoOut
  /\ UNCHANGED <<variant, calls, nextId, records, objects, commands, handlers, events, now>>

\* what the store keeps of a PUT whose Content-Length is `size` and whose
\* body was `sent` long: the bytes it received, up to Content-Length
Stored(size, sent) == IF sent < size THEN sent ELSE size

\* await this.uploadFile(...) returns: statSync had answered `size`, the
\* stream then read the content `f` (the file as it was when it was read)
\* and the PUT of these bytes with Content-Length `size` was answered 200
\* whenever the store answered it: uploadFile reads neither the clock nor
\* expiresAt.  It returns {size, sha256} with the size of statSync and the
\* digest of the bytes read
UploadSucceeds(u, size, f) ==
  /\ uploads[u].pc = "uploading"
  /\ objects' = [objects EXCEPT ![KeyId(uploads[u].cmd.objectKey)] = Stored(size, f.size)]
  /\ uploads' = [uploads EXCEPT ![u].pc = "pubComplete",
                                ![u].result = [size |-> size, sha256 |-> f.sha256]]
  /\ out' = NoOut
  /\ UNCHANGED <<variant, calls, nextId, records, commands, handlers, events, now, active>>

\* mutant of UploadFails: every failed attempt is reported with an event
UploadFailsReporting(u, msg) ==
  /\ uploads[u].pc = "uploading"
  /\ uploads' = [uploads EXCEPT ![u] =
       IF uploads[u].attempt < maxRetries
         THEN [@ EXCEPT !.pc = "sleeping", !.lastError = msg,
                        !.delay = Backoff(uploads[u].attempt),
                        !.slept = @ + Backoff(uploads[u].attempt)]
         ELSE [@ EXCEPT !.pc = "pubFailed", !.lastError = msg,
                        !.reason = UploadFailure(msg)]]
  /\ events' = events \cup {FailedEvent(uploads[u].cmd.downloadId, <<msg>>)}
  /\ out' = NoOut
  /\ UNCHANGED <<variant, calls, nextId, records, objects, commands, handlers, now, active>>

\* await this.uploadFile(...) throws `msg`: sleep and retry while
\* attempt < maxRetries, else throw to handleUploadCommand's catch, which
\* calls publishFailedEvent with the message
UploadFails(u, msg) ==
  /\ uploads[u].pc = "uploading"
  /\ uploads' = [uploads EXCEPT ![u] =
       IF uploads[u].attempt < maxRetries
         THEN [@ EXCEPT !.pc = "sleeping", !.lastError = msg,
                        !.delay = Backoff(uploads[u].attempt),
                        !.slept = @ + Backoff(uploads[u].attempt)]
         ELSE [@ EXCEPT !.pc = "pubFailed", !.lastError = msg,
                        !.reason = UploadFailure(msg)]]
  /\ out' = NoOut
  /\ UNCHANGED <<variant, calls, nextId, records, objects, commands, handlers, events, now,
                 active>>

\* mutant of Wake: the expiry is checked again before every retry
WakeChecksExpiry(u) ==
  /\ uploads[u].pc = "sleeping"
  /\ uploads' = [uploads EXCEPT ![u] =
       IF Expired(uploads[u].cmd.expiresAt, now)
         THEN [@ EXCEPT !.pc = "pubFailed", !.delay = 0,
                        !.reason = <<"Presigned URL expired">>]
         ELSE [@ EXCEPT !.pc = "uploading", !.delay = 0,
                        !.attempt = uploads[u].attempt + 1]]
  /\ out' = NoOut
  /\ UNCHANGED <<variant, calls, nextId, records, objects, commands, handlers, events, now,
                 active>>

\* mutant of Wake: the loop counter is not advanced
WakeSameAttempt(u) ==
  /\ uploads[u].pc = "sleeping"
  /\ uploads' = [uploads EXCEPT ![u].pc = "uploading", ![u].delay = 0]
  /\ out' = NoOut
  /\ UNCHANGED <<variant, calls, nextId, records, objects, commands, handlers, events, now,
                 active>>

\* await this.sleep(delay) is over: the next attempt
Wake(u) ==
  /\ uploads[u].pc = "sleeping"
  /\ uploads' = [uploads EXCEPT ![u].pc = "uploading", ![u].delay = 0,
                                ![u].attempt = uploads[u].attempt + 1]
  /\ out' = NoOut
  /\ UNCHANGED <<variant, calls, nextId, records, objects, commands, handlers, events, now,
                 active>>

\* mutant of PublishComplete: an error after the complete event went out (in
\* the try block) reaches the catch block, which publishes a failed event too
PublishCompleteThenCatch(u, ok) ==
  /\ uploads[u].pc = "pubComplete"
  /\ events' = IF ok
                 THEN events \cup {CompleteEvent(uploads[u].cmd.downloadId, uploads[u].result)}
                 ELSE events
  /\ uploads' = [uploads EXCEPT ![u].pc = "pubFailed",
                                ![u].reason = <<PublishErrorMessage>>]
  /\ out' = NoOut
  /\ UNCHANGED <<variant, calls, nextId, records, objects, commands, handlers, now, active>>

\* await brokerService.publishEvent({event: "upload_complete", ...}) completes;
\* if it throws, the catch block publishes a failed event with its message
PublishComplete(u, ok) ==
  /\ uploads[u].pc = "pubComplete"
  /\ IF ok
       THEN /\ events' = events \cup
                 {CompleteEvent(uploads[u].cmd.downloadId, uploads[u].result)}
            /\ Finish(u, 1)
       ELSE /\ uploads' = [uploads EXCEPT ![u].pc = "pubFailed",
                                          ![u].reason = <<PublishErrorMessage>>]
            /\ out' = NoOut
            /\ UNCHANGED <<events, active>>
  /\ UNCHANGED <<variant, calls, nextId, records, objects, commands, handlers, now>>

\* await this.publishFailedEvent(...) completes; an error of the publish is
\* logged and swallowed
PublishFailed(u, ok) ==
  /\ uploads[u].pc \in {"pubFailed", "pubExpired"}
  /\ events' = IF ok
                 THEN events \cup {FailedEvent(uploads[u].cmd.downloadId, uploads[u].reason)}
                 ELSE events
  /\ Finish(u, IF ok THEN 1 ELSE 0)
  /\ UNCHANGED <<variant, calls, nextId, records, objects, commands, handlers, now>>

(* ------------------------------ Spec ----------------------------------- *)

\* Events reach the server from the events:server channel, which any
\* publisher can write to: the handler's input is any UploadEvent, at any
\* time, any number of times.
Next ==
  \/ \E c \in ClientIds : Trigger(c) /\ UNCHANGED scen
  \/ \E c \in Calls, u \in Urls, ok \in BOOLEAN : PresignPut(c, u, ok) /\ UNCHANGED scen
  \/ \E c \in Calls, ok \in BOOLEAN : CreateDownload(c, ok) /\ UNCHANGED scen
  \/ \E c \in Calls, ok \in BOOLEAN : PublishCommand(c, ok) /\ UNCHANGED scen
  \/ \E d \in DownloadIds, s \in Sizes : StorePut(d, s) /\ UNCHANGED scen
  \/ \E d \in DownloadIds : StoreRemove(d) /\ UNCHANGED scen
  \/ \E h \in Handlers, e \in UploadEvents :
       HandleStart(h, e) /\ UNCHANGED <<events, scen>>
  \/ \E h \in Handlers, ok \in BOOLEAN : DbGetDownload(h, ok) /\ UNCHANGED scen
  \/ \E h \in Handlers, ok \in BOOLEAN : DbSetUploaded(h, ok) /\ UNCHANGED scen
  \/ \E h \in Handlers, a \in StatAnswers : VerifyExists(h, a) /\ UNCHANGED scen
  \/ \E h \in Handlers, a \in StatAnswers : VerifyMetadata(h, a) /\ UNCHANGED scen
  \/ \E h \in Handlers, ok \in BOOLEAN : DbSetResult(h, ok) /\ UNCHANGED scen
  \/ \E h \in Handlers, ok \in BOOLEAN : DbCatch(h, ok) /\ UNCHANGED scen

Spec == Init /\ [][Next]_vars

(* ------------------------------ SpecApi -------------------------------- *)

\* The server with its GET requests: triggers, events of any kind handled one
\* invocation after the other, the store changing, and status and artifact
\* requests arriving at any time, each suspended at its awaits while triggers
\* and handler invocations go on.
NextApi ==
  \/ \E c \in ClientIds : Trigger(c) /\ UNCHANGED scen
  \/ \E c \in Calls, u \in Urls, ok \in BOOLEAN : PresignPut(c, u, ok) /\ UNCHANGED scen
  \/ \E c \in Calls, ok \in BOOLEAN : CreateDownload(c, ok) /\ UNCHANGED scen
  \/ \E c \in Calls, ok \in BOOLEAN : PublishCommand(c, ok) /\ UNCHANGED scen
  \/ \E d \in DownloadIds, s \in Sizes : StorePut(d, s) /\ UNCHANGED scen
  \/ \E d \in DownloadIds : StoreRemove(d) /\ UNCHANGED scen
  \/ \E e \in UploadEvents :
       /\ \A h \in Handlers : handlers[h].pc = "idle"
       /\ HandleStart(FreeHandler, e)
       /\ UNCHANGED <<events, scen>>
  \/ \E h \in Handlers, ok \in BOOLEAN : DbGetDownload(h, ok) /\ UNCHANGED scen
  \/ \E h \in Handlers, ok \in BOOLEAN : DbSetUploaded(h, ok) /\ UNCHANGED scen
  \/ \E h \in Handlers, a \in StatAnswers : VerifyExists(h, a) /\ UNCHANGED scen
  \/ \E h \in Handlers, a \in StatAnswers : VerifyMetadata(h, a) /\ UNCHANGED scen
  \/ \E h \in Handlers, ok \in BOOLEAN : DbSetResult(h, ok) /\ UNCHANGED scen
  \/ \E h \in Handlers, ok \in BOOLEAN : DbCatch(h, ok) /\ UNCHANGED scen
  \/ \E d \in DownloadIds : GetStatus(d) /\ UNCHANGED scen
  \/ \E c \in Calls, ok \in BOOLEAN : StatusRead(c, ok) /\ UNCHANGED scen
  \/ \E d \in DownloadIds : GetArtifactUrl(d) /\ UNCHANGED scen
  \/ \E c \in Calls, ok \in BOOLEAN : ArtifactRead(c, ok) /\ UNCHANGED scen
  \/ \E c \in Calls, ok \in BOOLEAN : PresignGet(c, ok) /\ UNCHANGED scen

SpecApi == Init /\ [][NextApi]_vars

(* ------------------------------ SpecE2E -------------------------------- *)

\* Server and agent end to end.  The command channel delivers at least once:
\* after its first delivery a Command is delivered again, any number of
\* times, once the agent has finished with it and the record is Verified
\* (`scen` remembers which Commands have had their first delivery).  The event
\* channel delivers each published event once, and only the agent publishes:
\* whatever reaches the server is the agent's answer to a delivery of the
\* Command.  Scheduling is the calmest possible: an event is published when
\* the channel is empty and delivered when no handler invocation is under
\* way, so no two events are in flight and no two invocations overlap.
ChannelEmpty == events = {}
ServerIdle == \A h \in Handlers : handlers[h].pc = "idle"
ApiIdle == \A c \in Calls : calls[c].pc = "idle"
Delivered == IF scen.phase = "e2e" THEN scen.delivered ELSE {}
AgentDone(d) ==
  /\ d \notin active
  /\ \A u \in Uploads : uploads[u].pc # "idle" => uploads[u].cmd.downloadId # d

NextE2E ==
  \/ \E c \in ClientIds : Trigger(c) /\ UNCHANGED scen
  \/ \E c \in Calls, ok \in BOOLEAN : PresignPut(c, "put-url-a", ok) /\ UNCHANGED scen
  \/ \E c \in Calls, ok \in BOOLEAN : CreateDownload(c, ok) /\ UNCHANGED scen
  \/ \E c \in Calls, ok \in BOOLEAN : PublishCommand(c, ok) /\ UNCHANGED scen
  \/ Tick /\ UNCHANGED scen
  \/ \E u \in Uploads, c \in commands :
       /\ c.downloadId \notin Delivered
       /\ CommandReceive(u, c)
       /\ scen' = [phase |-> "e2e", delivered |-> Delivered \cup {c.downloadId}]
  \/ \E u \in Uploads, c \in commands :
       /\ c.downloadId \in Delivered
       /\ AgentDone(c.downloadId)
       /\ records[c.downloadId].status = "verified"
       /\ CommandReceive(u, c)
       /\ UNCHANGED scen
  \/ \E u \in Uploads, n \in Sizes, f \in FileContents :
       UploadSucceeds(u, n, f) /\ UNCHANGED scen
  \/ \E u \in Uploads, m \in UploadErrors : UploadFails(u, m) /\ UNCHANGED scen
  \/ \E u \in Uploads : Wake(u) /\ UNCHANGED scen
  \/ \E u \in Uploads, ok \in BOOLEAN :
       ChannelEmpty /\ PublishComplete(u, ok) /\ UNCHANGED scen
  \/ \E u \in Uploads, ok \in BOOLEAN :
       ChannelEmpty /\ PublishFailed(u, ok) /\ UNCHANGED scen
  \/ \E h \in Handlers, e \in events :
       ServerIdle /\ HandleStart(h, e) /\ events' = events \ {e} /\ UNCHANGED scen
  \/ \E h \in Handlers, ok \in BOOLEAN : DbGetDownload(h, ok) /\ UNCHANGED scen
  \/ \E h \in Handlers, ok \in BOOLEAN : DbSetUploaded(h, ok) /\ UNCHANGED scen
  \/ \E h \in Handlers, a \in StatAnswers : VerifyExists(h, a) /\ UNCHANGED scen
  \/ \E h \in Handlers, a \in StatAnswers : VerifyMetadata(h, a) /\ UNCHANGED scen
  \/ \E h \in Handlers, ok \in BOOLEAN : DbSetResult(h, ok) /\ UNCHANGED scen
  \/ \E h \in Handlers, ok \in BOOLEAN : DbCatch(h, ok) /\ UNCHANGED scen

SpecE2E == Init /\ [][NextE2E]_vars

(* ------------------------------ SpecTwice ------------------------------ *)

\* a step of a handler invocation under way
HandlerStep ==
  \E h \in Handlers :
    \/ \E ok \in BOOLEAN : DbGetDownload(h, ok)
    \/ \E ok \in BOOLEAN : DbSetUploaded(h, ok)
    \/ \E a \in StatAnswers : VerifyExists(h, a)
    \/ \E a \in StatAnswers : VerifyMetadata(h, a)
    \/ \E ok \in BOOLEAN : DbSetResult(h, ok)
    \/ \E ok \in BOOLEAN : DbCatch(h, ok)

\* the object store changes
StoreStep ==
  \/ \E d \in DownloadIds, s \in Sizes : StorePut(d, s)
  \/ \E d \in DownloadIds : StoreRemove(d)

\* the step just taken ended a handler invocation
Returned == out'.op = "handleUploadComplete"

\* The same event delivered twice, the second handling starting after the
\* first has returned.  After any run of the server (phase "setup") an event
\* for an existing record is handled with no other invocation under way
\* ("first"); `once` is the record it leaves ("between"); the same event is
\* handled again ("second") up to its return ("done").  The object store is
\* free to change and to fail all along.
TwiceFirst(e) ==
  /\ scen.phase = "setup"
  /\ ServerIdle
  /\ ApiIdle
  /\ records[e.downloadId] # NoRecord
  /\ HandleStart(FreeHandler, e)
  /\ UNCHANGED events
  /\ scen' = IF Returned
               THEN [phase |-> "between", ev |-> e, once |-> records'[e.downloadId]]
               ELSE [phase |-> "first", ev |-> e, once |-> NoRecord]

TwiceFirstStep ==
  /\ scen.phase = "first"
  /\ HandlerStep
  /\ scen' = IF Returned
               THEN [scen EXCEPT !.phase = "between",
                                 !.once = records'[scen.ev.downloadId]]
               ELSE scen

TwiceSecond ==
  /\ scen.phase = "between"
  /\ HandleStart(FreeHandler, scen.ev)
  /\ UNCHANGED events
  /\ scen' = [scen EXCEPT !.phase = IF Returned THEN "done" ELSE "second"]

TwiceSecondStep ==
  /\ scen.phase = "second"
  /\ HandlerStep
  /\ scen' = [scen EXCEPT !.phase = IF Returned THEN "done" ELSE "second"]

TwiceStore ==
  /\ scen.phase \in {"first", "between", "second"}
  /\ StoreStep
  /\ UNCHANGED scen

NextTwice ==
  \/ scen.phase = "setup" /\ Next
  \/ \E e \in UploadEvents : TwiceFirst(e)
  \/ TwiceFirstStep
  \/ TwiceSecond
  \/ TwiceSecondStep
  \/ TwiceStore

SpecTwice == Init /\ [][NextTwice]_vars

(* ------------------------------ SpecRace ------------------------------- *)

\* the store's answer for a bucket that holds an object of size objSize
\* under the key (0: none), when it does not fail
QuietStat(objSize) ==
  IF objSize # 0 THEN [kind |-> "ok", size |-> objSize]
                 ELSE [kind |-> "notfound", size |-> 0]

\* handleUploadComplete(e) run from its first line to its return with nothing
\* else running, on record `rec`, no call failing: the record it leaves
HandleSequential(v, rec, e, objSize) ==
  IF UnknownDownload(rec) THEN rec
  ELSE IF e.event = "upload_failed" THEN MarkFailed(v, rec, e.reason)
  ELSE LET up == MarkUploaded(rec, e)
           ans == QuietStat(objSize)
       IN IF ans.kind = "notfound"
            THEN FailVerification(v, up, <<"Object not found in storage after upload">>)
          ELSE IF Verdict(ans, e) = "verified" THEN MarkVerified(up)
          ELSE FailVerification(v, up, VerifyError(ans, e))

\* a step of a handler invocation in which no call fails
QuietStep ==
  \E h \in Handlers :
    \/ DbGetDownload(h, TRUE)
    \/ DbSetUploaded(h, TRUE)
    \/ \E a \in StatAnswers : a.kind # "throws" /\ VerifyExists(h, a)
    \/ \E a \in StatAnswers : a.kind # "throws" /\ VerifyMetadata(h, a)
    \/ DbSetResult(h, TRUE)

\* Two overlapping invocations for one record.  After any run of the server
\* (phase "setup") invocation A starts with no other under way and is
\* suspended at an await ("one"); invocation B for the same downloadId starts
\* while A is suspended ("both"); the two run on, in any interleaving of their
\* awaits, until both have returned ("done").  The object store does not
\* change and no call fails from A's start on: `start` and `obj` are the
\* record and the stored object's size when A started.
RaceFirst(e) ==
  /\ scen.phase = "setup"
  /\ ServerIdle
  /\ ApiIdle
  /\ records[e.downloadId] # NoRecord
  /\ HandleStart(FreeHandler, e)
  /\ ~Returned
  /\ UNCHANGED events
  /\ scen' = [phase |-> "one", evA |-> e, evB |-> NoEvent,
              start |-> records[e.downloadId], obj |-> objects[e.downloadId]]

RaceFirstStep ==
  /\ scen.phase = "one"
  /\ QuietStep
  /\ ~Returned
  /\ UNCHANGED scen

RaceSecond(e) ==
  /\ scen.phase = "one"
  /\ e.downloadId = scen.evA.downloadId
  /\ HandleStart(FreeHandler, e)
  /\ UNCHANGED events
  /\ scen' = [scen EXCEPT !.phase = "both", !.evB = e]

RaceStep ==
  /\ scen.phase = "both"
  /\ QuietStep
  /\ scen' = [scen EXCEPT !.phase =
                IF \A h \in Handlers : handlers'[h].pc = "idle" THEN "done" ELSE "both"]

NextRace ==
  \/ scen.phase = "setup" /\ Next
  \/ \E e \in UploadEvents : RaceFirst(e)
  \/ RaceFirstStep
  \/ \E e \in UploadEvents : RaceSecond(e)
  \/ RaceStep

SpecRace == Init /\ [][NextRace]_vars

(* ------------------------------ SpecAgent ------------------------------ *)

\* Commands an agent may receive on its channel: the well-formed Command of a
\* download of its own, and the same with one required field missing
AgentCommands ==
  UNION { LET good == UploadCommand(c, d, ObjectKey(variant, c, d), u,
                                    presignedExpiresSeconds)
          IN { good,
               [good EXCEPT !.downloadId = 0],
               [good EXCEPT !.objectKey = <<>>],
               [good EXCEPT !.presignedUrl = NoUrl] }
          : c \in ClientIds, d \in DownloadIds, u \in {"put-url-a"} }

\* The agent alone: any Command of AgentCommands arrives at any time, any
\* number of times, also while earlier invocations are suspended; the clock
\* advances; uploads and publishes succeed or fail freely.  Published events
\* stay on the channel.
NextAgent ==
  \/ Tick /\ UNCHANGED scen
  \/ \E u \in Uploads, c \in AgentCommands : CommandReceive(u, c) /\ UNCHANGED scen
  \/ \E u \in Uploads, n \in Sizes, f \in FileContents :
       UploadSucceeds(u, n, f) /\ UNCHANGED scen
  \/ \E u \in Uploads, m \in UploadErrors : UploadFails(u, m) /\ UNCHANGED scen
  \/ \E u \in Uploads : Wake(u) /\ UNCHANGED scen
  \/ \E u \in Uploads, ok \in BOOLEAN : PublishComplete(u, ok) /\ UNCHANGED scen
  \/ \E u \in Uploads, ok \in BOOLEAN : PublishFailed(u, ok) /\ UNCHANGED scen

SpecAgent == Init /\ [][NextAgent]_vars

\* the await an invocation is suspended at settles: the upload attempt
\* returns (of a file that did not change while it was read) or throws, the
\* timer of sleep fires, the publish returns or throws
AgentProgress(u) ==
  \/ \E f \in FileContents : UploadSucceeds(u, f.size, f) /\ UNCHANGED scen
  \/ \E m \in UploadErrors : UploadFails(u, m) /\ UNCHANGED scen
  \/ Wake(u) /\ UNCHANGED scen
  \/ \E ok \in BOOLEAN : PublishComplete(u, ok) /\ UNCHANGED scen
  \/ \E ok \in BOOLEAN : PublishFailed(u, ok) /\ UNCHANGED scen

\* The agent alone as in NextAgent, the file not changing during an attempt
NextAgentLive ==
  \/ Tick /\ UNCHANGED scen
  \/ \E u \in Uploads, c \in AgentCommands : CommandReceive(u, c) /\ UNCHANGED scen
  \/ \E u \in Uploads : AgentProgress(u)

\* The agent alone, every promise an invocation awaits settling in the end
SpecAgentLive ==
  Init /\ [][NextAgentLive]_vars /\ \A u \in Uploads : WF_vars(AgentProgress(u))

(* ------------------------------ SpecTransfers -------------------------- *)

\* well-formed Commands for several downloadIds
TransferCommands ==
  { UploadCommand(c, d, ObjectKey(variant, c, d), "put-url-a", presignedExpiresSeconds)
      : c \in ClientIds, d \in TransferIds }

\* The agent with Commands for several downloadIds arriving at any time;
\* uploads (of one file) and publishes succeed or fail freely.
NextTransfers ==
  \/ \E u \in Uploads, c \in TransferCommands : CommandReceive(u, c) /\ UNCHANGED scen
  \/ \E u \in Uploads, f \in {g \in FileContents : g.size = 1} :
       UploadSucceeds(u, f.size, f) /\ UNCHANGED scen
  \/ \E u \in Uploads : UploadFails(u, "Network Error") /\ UNCHANGED scen
  \/ \E u \in Uploads : Wake(u) /\ UNCHANGED scen
  \/ \E u \in Uploads, ok \in BOOLEAN : PublishComplete(u, ok) /\ UNCHANGED scen
  \/ \E u \in Uploads, ok \in BOOLEAN : PublishFailed(u, ok) /\ UNCHANGED scen

SpecTransfers == Init /\ [][NextTransfers]_vars

(* ------------------------------ SpecStream ----------------------------- *)

\* the bytes the read stream may emit as one chunk
Chunks == {"x", "y"}

\* hash.digest("hex") of a hash that was given these chunks
Digest(chunks) == <<"sha256 of bytes", chunks>>

\* uploadFile begins an attempt, in the turn of the command callback or of
\* the timer that woke it: the file exists, statSync answers `size`, a new
\* hash and a new read stream are created; nothing is read yet
StreamBegin(u, size) ==
  /\ uploads[u].pc = "uploading"
  /\ uploads[u].open # uploads[u].attempt
  /\ uploads' = [uploads EXCEPT ![u].open = uploads[u].attempt, ![u].stat = size,
                                ![u].read = <<>>, ![u].hash = <<>>]
  /\ out' = NoOut
  /\ UNCHANGED <<variant, calls, nextId, records, objects, commands, handlers, events, now,
                 active>>

\* the read stream emits its next chunk, the bytes the file holds there when
\* it is read (the file may have been rewritten or appended to since
\* statSync): axios sends it and the "data" listener gives it to the hash
StreamChunk(u, chunk) ==
  /\ uploads[u].pc = "uploading"
  /\ uploads[u].open = uploads[u].attempt
  /\ Len(uploads[u].read) < MaxSize
  /\ uploads' = [uploads EXCEPT ![u].read = Append(@, chunk),
                                ![u].hash = Append(@, chunk)]
  /\ out' = NoOut
  /\ UNCHANGED <<variant, calls, nextId, records, objects, commands, handlers, events, now,
                 active>>

\* the stream reached the end the file has by now and await axios.put(...)
\* returns: the store holds what it kept of the bytes sent, uploadFile
\* returns {size, sha256} with the size of statSync and the digest of the
\* chunks read
StreamSucceeds(u) ==
  /\ uploads[u].pc = "uploading"
  /\ uploads[u].open = uploads[u].attempt
  /\ Len(uploads[u].read) \in Sizes
  /\ objects' = [objects EXCEPT ![KeyId(uploads[u].cmd.objectKey)] =
                   Stored(uploads[u].stat, Len(uploads[u].read))]
  /\ uploads' = [uploads EXCEPT ![u].pc = "pubComplete",
                                ![u].result = [size |-> uploads[u].stat,
                                               sha256 |-> Digest(uploads[u].hash)]]
  /\ out' = NoOut
  /\ UNCHANGED <<variant, calls, nextId, records, commands, handlers, events, now, active>>

\* The agent with its uploads followed chunk by chunk: the file may hold
\* other bytes at every attempt and at every read, an attempt may fail
\* before, while or after its chunks are read.  The server takes each event
\* off the channel before the next is published; it has no record of the
\* download and drops the event.
NextStream ==
  \/ Tick /\ UNCHANGED scen
  \/ \E u \in Uploads, c \in TransferCommands :
       c.downloadId \in DownloadIds /\ CommandReceive(u, c) /\ UNCHANGED scen
  \/ \E u \in Uploads, n \in Sizes : StreamBegin(u, n) /\ UNCHANGED scen
  \/ \E u \in Uploads, chunk \in Chunks : StreamChunk(u, chunk) /\ UNCHANGED scen
  \/ \E u \in Uploads : StreamSucceeds(u) /\ UNCHANGED scen
  \/ \E u \in Uploads : UploadFails(u, "Network Error") /\ UNCHANGED scen
  \/ \E u \in Uploads : Wake(u) /\ UNCHANGED scen
  \/ \E u \in Uploads, ok \in BOOLEAN :
       ChannelEmpty /\ PublishComplete(u, ok) /\ UNCHANGED scen
  \/ \E u \in Uploads, ok \in BOOLEAN :
       ChannelEmpty /\ PublishFailed(u, ok) /\ UNCHANGED scen
  \/ \E h \in Handlers, e \in events :
       ServerIdle /\ HandleStart(h, e) /\ events' = events \ {e} /\ UNCHANGED scen
  \/ \E h \in Handlers : DbGetDownload(h, TRUE) /\ UNCHANGED scen

SpecStream == Init /\ [][NextStream]_vars

(* ------------------------------ SpecChecksum --------------------------- *)

\* the SHA-256 of the stored object: the store holds what an agent's PUT
\* streamed, the content of the file of that size
ObjectSha(size) == <<"sha256 of file", size>>

\* The server handling upload_complete events one at a time, the sha256 they
\* report being that of the stored object or not, the object store changing only between two
\* handlings: whatever a handling decides, it decides on the object that is
\* in the store when it returns.
NextChecksum ==
  \/ \E c \in ClientIds : Trigger(c) /\ UNCHANGED scen
  \/ \E c \in Calls, u \in Urls, ok \in BOOLEAN : PresignPut(c, u, ok) /\ UNCHANGED scen
  \/ \E c \in Calls, ok \in BOOLEAN : CreateDownload(c, ok) /\ UNCHANGED scen
  \/ \E c \in Calls, ok \in BOOLEAN : PublishCommand(c, ok) /\ UNCHANGED scen
  \/ ServerIdle /\ StoreStep /\ UNCHANGED scen
  \/ \E e \in CompleteEvents :
       ServerIdle /\ HandleStart(FreeHandler, e) /\ UNCHANGED <<events, scen>>
  \/ \E h \in Handlers, a \in StatAnswers :
       /\ a.kind # "throws"
       /\ VerifyExists(h, a) \/ VerifyMetadata(h, a)
       /\ UNCHANGED scen
  \/ \E h \in Handlers :
       /\ DbGetDownload(h, TRUE) \/ DbSetUploaded(h, TRUE) \/ DbSetResult(h, TRUE)
       /\ UNCHANGED scen
  \/ \E d \in DownloadIds : GetStatus(d) /\ UNCHANGED scen
  \/ \E c \in Calls, ok \in BOOLEAN : StatusRead(c, ok) /\ UNCHANGED scen

SpecChecksum == Init /\ [][NextChecksum]_vars

(* ------------------- file names and object keys ------------------------ *)

\* a request arrives with a file name, or with none
NameArrives(name) ==
  /\ scen = NoScenario
  /\ scen' = [phase |-> "names", name |-> name]
  /\ UNCHANGED <<variant, calls, nextId, records, objects, commands, handlers, events,
                 now, agentVars, out>>

\* sanitizeFilename applied to the request's file name, then to its own
\* result
Sanitize ==
  LET name == IF out = NoOut THEN scen.name ELSE out.result IN
  /\ scen.phase = "names"
  /\ out = NoOut \/ out.op = "sanitizeFilename"
  /\ out' = [op |-> "sanitizeFilename", name |-> name, result |-> sanitizeFilename(name)]
  /\ UNCHANGED <<variant, calls, nextId, records, objects, commands, handlers, events,
                 now, agentVars>>

NextNames ==
  \/ \E n \in Names : NameArrives(n)
  \/ Sanitize /\ UNCHANGED scen
  \/ \E c \in ClientIds :
       /\ scen.phase = "names"
       /\ TriggerDownload(c, scen.name)
       /\ UNCHANGED scen
  \/ \E c \in Calls, u \in Urls, ok \in BOOLEAN : PresignPut(c, u, ok) /\ UNCHANGED scen
  \/ \E c \in Calls, ok \in BOOLEAN : CreateDownload(c, ok) /\ UNCHANGED scen
  \/ \E c \in Calls, ok \in BOOLEAN : PublishCommand(c, ok) /\ UNCHANGED scen

SpecNames == Init /\ [][NextNames]_vars

(* ------------------------------ SpecTimes ------------------------------ *)

\* The server while time passes: events of any kind are handled one after
\* the other, the store changes between invocations, and every call of an
\* invocation may succeed or fail.
NextTimes ==
  \/ \E c \in ClientIds : Trigger(c) /\ UNCHANGED scen
  \/ \E c \in Calls, u \in Urls, ok \in BOOLEAN : PresignPut(c, u, ok) /\ UNCHANGED scen
  \/ \E c \in Calls, ok \in BOOLEAN : CreateDownload(c, ok) /\ UNCHANGED scen
  \/ \E c \in Calls, ok \in BOOLEAN : PublishCommand(c, ok) /\ UNCHANGED scen
  \/ Tick /\ UNCHANGED scen
  \/ ServerIdle /\ StoreStep /\ UNCHANGED scen
  \/ \E e \in UploadEvents :
       ServerIdle /\ HandleStart(FreeHandler, e) /\ UNCHANGED <<events, scen>>
  \/ \E h \in Handlers, ok \in BOOLEAN : DbGetDownload(h, ok) /\ UNCHANGED scen
  \/ \E h \in Handlers, ok \in BOOLEAN : DbSetUploaded(h, ok) /\ UNCHANGED scen
  \/ \E h \in Handlers, a \in StatAnswers : VerifyExists(h, a) /\ UNCHANGED scen
  \/ \E h \in Handlers, a \in StatAnswers : VerifyMetadata(h, a) /\ UNCHANGED scen
  \/ \E h \in Handlers, ok \in BOOLEAN : DbSetResult(h, ok) /\ UNCHANGED scen
  \/ \E h \in Handlers, ok \in BOOLEAN : DbCatch(h, ok) /\ UNCHANGED scen
  \/ \E d \in DownloadIds : GetStatus(d) /\ UNCHANGED scen
  \/ \E c \in Calls, ok \in BOOLEAN : StatusRead(c, ok) /\ UNCHANGED scen

SpecTimes == Init /\ [][NextTimes]_vars

(* ------------------------------ SpecLive ------------------------------- *)

\* The run of the end-to-end test: every part works.  A Command is delivered
\* once, before its URL expires; an upload attempt may fail but the fifth
\* does not; publishes, the store and the database answer normally; the
\* event is delivered once.  The API is polled at any time.
LiveDeliver ==
  \E u \in Uploads, c \in commands :
    /\ c.downloadId \notin Delivered
    /\ CommandReceive(u, c)
    /\ scen' = [phase |-> "e2e", delivered |-> Delivered \cup {c.downloadId}]

LiveUpload ==
  /\ \/ \E u \in Uploads, n \in Sizes, f \in FileContents :
          f.size >= n /\ UploadSucceeds(u, n, f)
     \/ \E u \in Uploads, m \in UploadErrors :
          uploads[u].attempt < maxRetries /\ UploadFails(u, m)
     \/ \E u \in Uploads : Wake(u)
     \/ \E u \in Uploads : PublishComplete(u, TRUE)
  /\ UNCHANGED scen

LiveHandle ==
  /\ \/ \E h \in Handlers, e \in events : HandleStart(h, e) /\ events' = events \ {e}
     \/ \E h \in Handlers, a \in StatAnswers :
          a.kind = "ok" /\ (VerifyExists(h, a) \/ VerifyMetadata(h, a))
     \/ \E h \in Handlers :
          DbGetDownload(h, TRUE) \/ DbSetUploaded(h, TRUE) \/ DbSetResult(h, TRUE)
  /\ UNCHANGED scen

\* the steps the event loops of the agent and of the server run when they
\* are ready
LiveProgress == LiveDeliver \/ LiveUpload \/ LiveHandle

NextLive ==
  \/ \E c \in ClientIds : Trigger(c) /\ UNCHANGED scen
  \/ \E c \in Calls, u \in Urls, ok \in BOOLEAN : PresignPut(c, u, ok) /\ UNCHANGED scen
  \/ \E c \in Calls, ok \in BOOLEAN : CreateDownload(c, ok) /\ UNCHANGED scen
  \/ \E c \in Calls, ok \in BOOLEAN : PublishCommand(c, ok) /\ UNCHANGED scen
  \/ Tick /\ now' < presignedExpiresSeconds /\ UNCHANGED scen
  \/ LiveDeliver
  \/ LiveUpload
  \/ LiveHandle
  \/ \E d \in DownloadIds : GetStatus(d) /\ UNCHANGED scen
  \/ \E c \in Calls, ok \in BOOLEAN : StatusRead(c, ok) /\ UNCHANGED scen
  \/ \E d \in DownloadIds : GetArtifactUrl(d) /\ UNCHANGED scen
  \/ \E c \in Calls : ArtifactRead(c, TRUE) /\ UNCHANGED scen
  \/ \E c \in Calls : PresignGet(c, TRUE) /\ UNCHANGED scen

\* Node runs every callback that is ready: a step of the agent or of the
\* server that stays possible is taken
SpecLive == Init /\ [][NextLive]_vars /\ WF_vars(LiveProgress)

(* ------------------------------ claims --------------------------------- *)

Terminal(rec) == rec # NoRecord /\ rec.status \in {"verified", "failed"}

\* C1: once a record is Verified or Failed, no step changes its status, size,
\* digest or failure reason (any further event for it is discarded).
C1_TerminalRecordUnchanged ==
  [][\A d \in DownloadIds : Terminal(records[d]) => records'[d] = records[d]]_vars

StatusMoves ==
  { <<"pending", "uploaded">>, <<"uploaded", "verified">>,
    <<"pending", "failed">>, <<"uploaded", "failed">> }

\* C2: every change of a record's status is Pending->Uploaded,
\* Uploaded->Verified, Pending->Failed or Uploaded->Failed.
C2_StatusMovesForward ==
  [][\A d \in DownloadIds :
       (records[d] # NoRecord /\ records'[d].status # records[d].status)
         => <<records[d].status, records'[d].status>> \in StatusMoves]_vars

\* C3: handling the same event twice, one handling after the other, leaves
\* the record in the terminal status the first handling left it in, whatever
\* the object store answers during the second handling.
C3_TwiceSameAsOnce ==
  (scen.phase = "done" /\ Terminal(scen.once))
    => records[scen.ev.downloadId].status = scen.once.status

\* C4: end to end, a Verified record stays Verified when its Command is
\* delivered again after the transfer finished (SpecE2E redelivers a Command
\* only then, before and after the write credential expired), whatever the
\* agent answers to the duplicate.
C4_DuplicateCommandKeepsVerified ==
  [][\A d \in DownloadIds :
       (records[d] # NoRecord /\ records[d].status = "verified")
         => records'[d].status = "verified"]_vars

\* the record two invocations leave when the second starts after the first
\* has returned
Serial(e1, e2) ==
  HandleSequential(variant,
    HandleSequential(variant, scen.start, e1, scen.obj), e2, scen.obj)

\* C5: when two invocations for the same downloadId have overlapped and both
\* have returned, the record is the one that handling the two events one
\* after the other, in one of the two orders, leaves.
C5_OverlapIsSerial ==
  scen.phase = "done" =>
    records[scen.evA.downloadId] \in {Serial(scen.evA, scen.evB), Serial(scen.evB, scen.evA)}

\* what the verification has to decide from the store's answer
Expected(ans, e) ==
  IF ans.kind = "ok" /\ ans.size = e.size THEN "verified" ELSE "failed"

\* C6: handling a complete event ends in Verified exactly when the store
\* answers that the object exists, answers its metadata, and the metadata's
\* size equals the event's size; a missing object, missing metadata or a
\* different size ends in Failed.  (In memory the verdict is written in the
\* step that receives the answer; with a database the answer is kept in
\* `metadata` and the verdict is what the following update writes.)
C6_VerifiedIffSizeMatches ==
  [][\A h \in Handlers :
       /\ \A a \in StatAnswers :
            /\ (variant = "mem" /\ VerifyExists(h, a) /\ a.kind = "notfound")
                 => records'[handlers[h].ev.downloadId].status = "failed"
            /\ (variant = "mem" /\ VerifyMetadata(h, a) /\ a.kind # "throws")
                 => records'[handlers[h].ev.downloadId].status = Expected(a, handlers[h].ev)
            /\ (variant = "db" /\ VerifyMetadata(h, a) /\ a.kind # "throws")
                 => handlers'[h].metadata = a
       /\ (DbSetResult(h, TRUE) /\ handlers[h].ev.event = "upload_complete")
            => records'[handlers[h].ev.downloadId].status
                 = Expected(handlers[h].metadata, handlers[h].ev)
  ]_vars

\* a complete event was handled to the end and the record is Verified, the
\* stored object having the size the event reported
C6_Witness ==
  /\ out.op = "handleUploadComplete"
  /\ out.result = "handled"
  /\ records[out.id].status = "verified"
  /\ objects[out.id] = records[out.id].size

\* C7: an invocation that has set the record to Uploaded leaves it Verified
\* or Failed when it returns, whatever raised during the verification.
C7_NeverLeftUploaded ==
  [][\A h \in Handlers :
       (handlers[h].pc # "idle" /\ handlers[h].wrote /\ handlers'[h].pc = "idle")
         => records'[handlers[h].ev.downloadId].status \in {"verified", "failed"}
  ]_vars

\* C8: getArtifactUrl asks the gateway for a read credential, and returns
\* one, only for a record that is Verified when the call reads it; for an
\* unknown id or a Pending, Uploaded or Failed record it answers not-available
\* and asks for nothing.  A call whose read of the row is rejected by the
\* database throws before the check: it asks for nothing and returns no URL.
C8_ArtifactOnlyWhenVerified ==
  [][/\ \A d \in DownloadIds :
          (variant = "mem" /\ GetArtifactUrl(d))
            => IF records[d] # NoRecord /\ records[d].status = "verified"
                 THEN calls'[FreeCall].pc = "presignGet" /\ out' = NoOut
                 ELSE /\ out'.op = "getArtifactUrl"
                      /\ out'.result = "not available"
                      /\ ~out'.asked
                      /\ UNCHANGED calls
     /\ \A c \in Calls :
          ArtifactRead(c, TRUE)
            => IF records[calls[c].id] # NoRecord
                    /\ records[calls[c].id].status = "verified"
                 THEN calls'[c].pc = "presignGet" /\ out' = NoOut
                 ELSE /\ out'.op = "getArtifactUrl"
                      /\ out'.result = "not available"
                      /\ ~out'.asked
                      /\ calls'[c] = IdleCall
     /\ \A c \in Calls :
          ArtifactRead(c, FALSE)
            => /\ out'.op = "getArtifactUrl"
               /\ out'.result = "error"
               /\ ~out'.asked
               /\ calls'[c] = IdleCall
     /\ \A c \in Calls :
          (calls[c].pc # "presignGet" /\ calls'[c].pc = "presignGet")
            => /\ records[calls'[c].id] # NoRecord
               /\ records[calls'[c].id].status = "verified"
     /\ (out'.op = "getArtifactUrl" /\ out'.asked)
          => \E c \in Calls : /\ calls[c].pc = "presignGet"
                              /\ calls[c].id = out'.id
                              /\ calls'[c] = IdleCall
     /\ (out'.op = "getArtifactUrl" /\ out'.result = "url") => out'.asked
  ]_vars

\* a read credential was returned
C8_Witness == out.op = "getArtifactUrl" /\ out.result = "url" /\ out.asked

\* C9: an event whose downloadId has no record is discarded: the lookup
\* returns at once with the unknown-id warning, no record is created or
\* changed, the store is not queried (the invocation is over), nothing is
\* raised; the same when the lookup itself failed and the catch block's
\* update finds no row.
C9_UnknownIdIsNoOp ==
  [][\A h \in Handlers :
       /\ \A e \in UploadEvents :
            (variant = "mem" /\ HandleStart(h, e) /\ records[e.downloadId] = NoRecord)
              => /\ UNCHANGED <<records, objects>>
                 /\ handlers'[h] = IdleHandler
                 /\ out' = [op |-> "handleUploadComplete", id |-> e.downloadId,
                            result |-> "unknown"]
       /\ (DbGetDownload(h, TRUE) /\ records[handlers[h].ev.downloadId] = NoRecord)
            => /\ UNCHANGED <<records, objects>>
               /\ handlers'[h] = IdleHandler
               /\ out' = [op |-> "handleUploadComplete",
                          id |-> handlers[h].ev.downloadId, result |-> "unknown"]
       /\ \A ok \in BOOLEAN :
            (DbCatch(h, ok) /\ records[handlers[h].ev.downloadId] = NoRecord)
              => /\ UNCHANGED <<records, objects>>
                 /\ handlers'[h] = IdleHandler
                 /\ out'.result = "handled"
  ]_vars

\* an event for an id without record was handled and there is still no record
C9_Witness ==
  /\ out.op = "handleUploadComplete"
  /\ out.result = "unknown"
  /\ records[out.id] = NoRecord

\* C10: the answer of getStatus does not depend on the write credential
\* issued at trigger time (it is the same for every presigned URL the record
\* could hold), and no answer has a presignedUrl field.
C10_StatusHidesWriteCredential ==
  /\ \A d \in DownloadIds, dbOk \in BOOLEAN :
       records[d] # NoRecord =>
         \A u \in Urls :
           StatusResponse(variant, d, [records[d] EXCEPT !.presignedUrl = u], dbOk)
             = StatusResponse(variant, d, records[d], dbOk)
  /\ (out.op = "getDownloadStatus" /\ out.result = "ok")
       => "presignedUrl" \notin DOMAIN out.body

\* getStatus answered for a record that holds its write credential
C10_Witness ==
  /\ out.op = "getDownloadStatus"
  /\ out.result = "ok"
  /\ records[out.id].presignedUrl \in Urls

\* C11: triggerDownload creates its record Pending under the new id, with
\* the objectKey built for that id and client, and a call that succeeds has
\* created it; a record, once created, stays, and no step changes its
\* objectKey or clientId; getStatus answers with the record's own id,
\* objectKey and clientId.
C11_PendingAndKeyStable ==
  [][/\ \A d \in DownloadIds :
          (records[d] = NoRecord /\ records'[d] # NoRecord)
            => \E c \in Calls :
                 /\ calls[c].op = "triggerDownload"
                 /\ calls[c].id = d
                 /\ calls'[c].pc = "publishCommand"
                 /\ records'[d].status = "pending"
                 /\ records'[d].objectKey = ObjectKey(variant, calls[c].clientId, d)
                 /\ records'[d].clientId = calls[c].clientId
     /\ \A c \in Calls :
          PublishCommand(c, TRUE)
            => /\ records'[calls[c].id] # NoRecord
               /\ records'[calls[c].id].objectKey
                    = ObjectKey(variant, calls[c].clientId, calls[c].id)
     /\ \A d \in DownloadIds :
          records[d] # NoRecord
            => /\ records'[d] # NoRecord
               /\ records'[d].objectKey = records[d].objectKey
               /\ records'[d].clientId = records[d].clientId
     /\ (out'.op = "getDownloadStatus" /\ out'.result = "ok")
          => /\ out'.body.downloadId = out'.id
             /\ out'.body.objectKey = records[out'.id].objectKey
             /\ out'.body.clientId = records[out'.id].clientId
  ]_vars

\* a record that went through onEvent and verification and is then read
\* still has the key of its creation
C11_Witness ==
  /\ out.op = "getDownloadStatus"
  /\ out.result = "ok"
  /\ out.body.status \in {"verified", "failed"}
  /\ out.body.objectKey = ObjectKey(variant, records[out.id].clientId, out.id)

\* C12: when signing the PUT URL throws inside triggerDownload, no record is
\* persisted, no command is published and the caller gets the error.
C12_PresignFailureLeavesNothing ==
  [][\A c \in Calls, u \in Urls :
       PresignPut(c, u, FALSE)
         => /\ UNCHANGED <<records, commands>>
            /\ records'[calls[c].id] = NoRecord
            /\ \A cmd \in commands' : cmd.downloadId # calls[c].id
            /\ calls'[c] = IdleCall
            /\ out'.op = "triggerDownload"
            /\ out'.id = calls[c].id
            /\ out'.result = "error"
            /\ out'.thrown = "presign throws"
  ]_vars

\* a trigger call failed at presigning
C12_Witness ==
  /\ out.op = "triggerDownload"
  /\ out.thrown = "presign throws"
  /\ records[out.id] = NoRecord
  /\ commands = {}

\* C13: when the record was persisted and publishCommand throws, the caller
\* gets the error, the record is Pending and getStatus answers with it; and
\* commands are published by trigger calls only, one for the id of the call:
\* no other step publishes a command, so a record never gets a second one.
C13_PublishFailureLeavesPending ==
  [][/\ \A c \in Calls :
          PublishCommand(c, FALSE)
            => LET d == calls[c].id IN
               /\ out'.op = "triggerDownload"
               /\ out'.id = d
               /\ out'.result = "error"
               /\ out'.thrown = "publish throws"
               /\ records'[d].status = "pending"
               /\ StatusResponse(variant, d, records'[d], TRUE).result = "ok"
               /\ StatusResponse(variant, d, records'[d], TRUE).body.status = "pending"
               /\ calls'[c] = IdleCall
               /\ UNCHANGED <<records, commands>>
     /\ commands' # commands
          => /\ out'.op = "triggerDownload"
             /\ out'.result = "ok"
             /\ \E cmd \in commands' :
                  /\ cmd.downloadId = out'.id
                  /\ commands' = commands \cup {cmd}
     /\ \A d \in DownloadIds :
          Cardinality({cmd \in commands' : cmd.downloadId = d}) <= 1
  ]_vars

\* a trigger call has failed at publishing: its record is there, Pending,
\* and no command was published
C13_Witness ==
  /\ out.op = "triggerDownload"
  /\ out.thrown = "publish throws"
  /\ records[out.id] # NoRecord
  /\ records[out.id].status = "pending"
  /\ commands = {}

\* the invocations that hold downloadId d in flight: past the guards, not
\* yet returned
RunningFor(d) ==
  { u \in Uploads : /\ uploads[u].pc \in {"uploading", "sleeping", "pubComplete", "pubFailed"}
                    /\ uploads[u].cmd.downloadId = d }

\* C14: a Command for a downloadId that is in activeDownloads is discarded:
\* no invocation starts, nothing is uploaded, no event is published; and at
\* every moment at most one invocation per downloadId is in flight, however
\* deliveries interleave with the suspensions of the first.
C14_NoSecondTransferInFlight ==
  [][/\ \A u \in Uploads, c \in AgentCommands :
          (CommandReceive(u, c) /\ CommandValid(c) /\ c.downloadId \in active)
            => /\ UNCHANGED <<uploads, active, events, objects>>
               /\ out'.result = "duplicate"
     /\ \A d \in DownloadIds : Cardinality(RunningFor(d)') <= 1
  ]_vars

\* a duplicate was discarded while the first invocation is between attempts
C14_Witness ==
  /\ out.op = "handleUploadCommand"
  /\ out.result = "duplicate"
  /\ \E u \in Uploads : uploads[u].pc = "sleeping" /\ uploads[u].cmd.downloadId = out.id

\* the failed event of the expiry guard
ExpiredEvent(d) == FailedEvent(d, <<"Presigned URL expired">>)

\* an invocation suspended in the expiry guard's publishFailedEvent ends with
\* that one publish: no upload, one failed event when the channel accepts it
ExpiredEndsWithOnePublish(u) ==
  (uploads[u].pc = "pubExpired" /\ uploads'[u] # uploads[u])
    => /\ uploads'[u] = IdleUpload
       /\ out'.op = "handleUploadCommand"
       /\ out'.result = "failed"
       /\ out'.attempts = 0
       /\ out'.sent \in {0, 1}
       /\ events' = IF out'.sent = 1
                      THEN events \cup {ExpiredEvent(uploads[u].cmd.downloadId)}
                      ELSE events
       /\ UNCHANGED <<objects, active>>

\* C15 as stated: every valid Command whose expiry is in the past when it is
\* received goes to publish its one failed event, without a transfer attempt.
C15_ExpiredCommandOneFailedEvent ==
  [][\A u \in Uploads :
       /\ \A c \in AgentCommands :
            (CommandReceive(u, c) /\ CommandValid(c) /\ c.expiresAt < now)
              => /\ uploads'[u].pc = "pubExpired"
                 /\ uploads'[u].attempt = 0
                 /\ uploads'[u].reason = <<"Presigned URL expired">>
       /\ ExpiredEndsWithOnePublish(u)
  ]_vars

\* C15, amended: a valid Command whose downloadId is not in flight and whose
\* expiry is in the past when it is received makes no transfer attempt and
\* one publish of a failed event with the expiry reason, which is on the
\* channel when the channel accepted it; nothing is retried.  (An expired
\* Command for a downloadId in flight is discarded as a duplicate, C14.)
C15_ExpiredPastGuardsOneFailedEvent ==
  [][\A u \in Uploads :
       /\ \A c \in AgentCommands :
            (CommandReceive(u, c) /\ CommandValid(c) /\ c.downloadId \notin active
               /\ c.expiresAt < now)
              => /\ uploads'[u].pc = "pubExpired"
                 /\ uploads'[u].attempt = 0
                 /\ uploads'[u].reason = <<"Presigned URL expired">>
                 /\ UNCHANGED <<objects, active, events>>
       /\ ExpiredEndsWithOnePublish(u)
  ]_vars

\* an expired Command was answered with its failed event and nothing was
\* uploaded
C15_Witness ==
  /\ out.op = "handleUploadCommand"
  /\ out.result = "failed"
  /\ out.attempts = 0
  /\ out.sent = 1
  /\ ExpiredEvent(out.id) \in events
  /\ objects[out.id] = 0

\* C16: when an invocation that added its downloadId to activeDownloads
\* returns (upload published, retries exhausted, or the publish raised), the
\* id is no longer in the set; the set holds exactly the ids of the
\* invocations in flight, so a later Command for the id is not a duplicate.
C16_InFlightReleasedOnExit ==
  [][/\ \A u \in Uploads :
          (uploads[u].pc \in {"uploading", "sleeping", "pubComplete", "pubFailed"}
             /\ uploads'[u].pc = "idle")
            => uploads[u].cmd.downloadId \notin active'
     /\ active' = {d \in DownloadIds : RunningFor(d)' # {}}
  ]_vars

\* an invocation whose upload succeeded and whose publishes both raised has
\* returned, and its id is released
C16_Witness ==
  /\ out.op = "handleUploadCommand"
  /\ out.result = "failed"
  /\ out.attempts = 1
  /\ out.sent = 0
  /\ out.id \notin active

\* the delay before attempt k+1, in ms, at index k
DelayBefore == <<1000, 2000, 4000, 8000>>

\* C17: the first attempt follows the guards without a delay; a failed
\* attempt k < 5 is followed by a sleep of 1000 * 2^(k-1) ms (1s, 2s, 4s, 8s)
\* and then by attempt k+1; the fifth failed attempt is followed by no sleep
\* and no further attempt.
C17_BackoffSchedule ==
  [][\A u \in Uploads :
       /\ \A c \in AgentCommands :
            (CommandReceive(u, c) /\ uploads'[u].pc = "uploading")
              => /\ uploads'[u].attempt = 1
                 /\ uploads'[u].delay = 0
                 /\ uploads'[u].slept = 0
       /\ \A m \in UploadErrors :
            UploadFails(u, m)
              => IF uploads[u].attempt < 5
                   THEN /\ uploads'[u].pc = "sleeping"
                        /\ uploads'[u].delay = DelayBefore[uploads[u].attempt]
                        /\ uploads'[u].attempt = uploads[u].attempt
                   ELSE /\ uploads'[u].pc = "pubFailed"
                        /\ uploads'[u].delay = 0
       /\ Wake(u)
            => /\ uploads'[u].pc = "uploading"
               /\ uploads'[u].attempt = uploads[u].attempt + 1
       /\ uploads'[u].attempt <= 5
  ]_vars

\* five attempts have failed, after sleeps of 1+2+4+8 seconds
C17_Witness ==
  \E u \in Uploads :
    /\ uploads[u].pc = "pubFailed"
    /\ uploads[u].attempt = 5
    /\ uploads[u].slept = 15000

\* C18: an invocation past the guards publishes nothing while it uploads,
\* sleeps and retries; a successful attempt leads to one publish of a complete
\* event, the fifth failure to one publish of a failed event; when the channel
\* accepts the publish the invocation returns having emitted exactly that one
\* event.
C18_OneEventPerCommand ==
  [][\A u \in Uploads :
       /\ \A n \in Sizes, f \in FileContents :
            UploadSucceeds(u, n, f)
              => UNCHANGED events /\ uploads'[u].pc = "pubComplete"
       /\ \A m \in UploadErrors :
            UploadFails(u, m)
              => /\ UNCHANGED events
                 /\ (uploads'[u].pc = "pubFailed") = (uploads[u].attempt = 5)
                 /\ uploads'[u].pc \in {"pubFailed", "sleeping"}
       /\ Wake(u) => UNCHANGED events
       /\ PublishComplete(u, TRUE)
            => /\ out'.result = "complete"
               /\ out'.sent = 1
               /\ events' = events \cup
                    {CompleteEvent(uploads[u].cmd.downloadId, uploads[u].result)}
               /\ uploads'[u] = IdleUpload
       /\ (PublishFailed(u, TRUE) /\ uploads[u].pc = "pubFailed"
             /\ uploads[u].result = NoFile)
            => /\ out'.result = "failed"
               /\ out'.attempts = 5
               /\ out'.sent = 1
               /\ events' = events \cup
                    {FailedEvent(uploads[u].cmd.downloadId, uploads[u].reason)}
               /\ uploads'[u] = IdleUpload
  ]_vars

\* four failures, then a success on the fifth attempt after 1+2+4+8 seconds
\* of sleep, and one complete event emitted
C18_Witness ==
  /\ out.op = "handleUploadCommand"
  /\ out.result = "complete"
  /\ out.attempts = 5
  /\ out.slept = 15000
  /\ out.sent = 1

\* C19: when the fifth attempt fails with error message m, the reason of the
\* failed event to publish is m.
C19_ReasonIsLastErrorMessage ==
  [][\A u \in Uploads, m \in UploadErrors :
       (UploadFails(u, m) /\ uploads[u].attempt = 5)
         => uploads'[u].reason = <<m>>
  ]_vars

\* the delays the README lists, in ms
ReadmeDelays == <<1000, 2000, 4000, 8000, 16000>>

\* C20 as stated: every failed attempt, up to the fifth, is followed by a
\* sleep, of 1s, 2s, 4s, 8s and 16s.
C20_FiveRetriesUpTo16s ==
  [][\A u \in Uploads, m \in UploadErrors :
       UploadFails(u, m)
         => /\ uploads'[u].pc = "sleeping"
            /\ uploads'[u].delay = ReadmeDelays[uploads[u].attempt]
  ]_vars

\* C20, amended: the client makes up to 5 attempts, that is up to 4 retries,
\* with sleeps of 1s, 2s, 4s and 8s between them (15s in all); it never
\* sleeps 16s and never makes a sixth attempt.
C20_FourRetriesUpTo8s ==
  \A u \in Uploads :
    /\ uploads[u].attempt <= 5
    /\ uploads[u].slept <= 15000
    /\ uploads[u].pc = "sleeping"
         => /\ uploads[u].attempt <= 4
            /\ uploads[u].delay \in {1000, 2000, 4000, 8000}
    /\ uploads[u].pc = "uploading"
         => uploads[u].slept = 1000 * (2 ^ (uploads[u].attempt - 1) - 1)

\* the fifth attempt is under way after four retries' sleeps
C20_Witness ==
  \E u \in Uploads :
    /\ uploads[u].pc = "uploading"
    /\ uploads[u].attempt = 5
    /\ uploads[u].slept = 15000

\* C21: a record becomes Verified only when the SHA-256 of the stored object
\* equals the sha256 the upload_complete event reported (which the record
\* holds), besides the size.
C21_VerifiedOnlyIfChecksumMatches ==
  [][\A d \in DownloadIds :
       (records[d] # NoRecord /\ records[d].status # "verified"
          /\ records'[d].status = "verified")
         => /\ objects'[d] # 0
            /\ objects'[d] = records'[d].size
            /\ ObjectSha(objects'[d]) = records'[d].sha256
  ]_vars

\* C22: handleUploadComplete and handleUploadCommand never raise to their
\* callers: every failing call inside them (object store, record store, event
\* channel, upload) leads the invocation on to its catch path or to a normal
\* return; only triggerDownload ends with the error of a failed step.
C22_HandlersNeverRaise ==
  [][/\ out'.op = "handleUploadComplete" => out'.result \in {"handled", "unknown"}
     /\ out'.op = "handleUploadCommand"
          => out'.result \in {"complete", "failed", "invalid", "duplicate"}
     /\ out'.op = "triggerDownload"
          => (out'.result = "error") = (out'.thrown # "nothing")
     /\ \A h \in Handlers :
          /\ (DbGetDownload(h, FALSE) \/ DbSetUploaded(h, FALSE) \/ DbSetResult(h, FALSE))
               => handlers'[h].pc = "catch"
          /\ DbCatch(h, FALSE)
               => handlers'[h] = IdleHandler /\ out'.result = "handled"
          /\ \A a \in StatAnswers :
               (a.kind = "throws" /\ (VerifyExists(h, a) \/ VerifyMetadata(h, a)))
                 => IF variant = "db"
                      THEN handlers'[h].pc = "catch"
                      ELSE handlers'[h] = IdleHandler /\ out'.result = "handled"
     /\ \A u \in Uploads :
          /\ PublishComplete(u, FALSE) => uploads'[u].pc = "pubFailed"
          /\ PublishFailed(u, FALSE)
               => uploads'[u] = IdleUpload /\ out'.result = "failed"
  ]_vars

\* an invocation whose verification raised and whose catch block's update
\* raised as well has returned normally
C22_Witness ==
  /\ out.op = "handleUploadComplete"
  /\ out.result = "handled"
  /\ records[out.id].status = "uploaded"

\* C23: sanitizeFilename is total and idempotent: its result is 1 to 128
\* characters long and consists of lower-case letters, digits, '.', '_' and
\* '-' only (or is the fallback "file"), and sanitizing a result gives the
\* same result again.
C23_SanitizeTotalIdempotent ==
  [][out'.op = "sanitizeFilename"
       => /\ Len(out'.result) \in 1..maxNameLength
          /\ \/ out'.result = File
             \/ \A i \in 1..Len(out'.result) :
                  out'.result[i] \in {"a", "b", "7", ".", "_", "-"}
          /\ out.op = "sanitizeFilename" => out'.result = out.result
  ]_vars

\* a name longer than 128 characters with upper-case letters was sanitized
\* and its result sanitized again
C23_Witness ==
  /\ out.op = "sanitizeFilename"
  /\ scen.name # NoName
  /\ Len(RemoveDisallowed(scen.name)) > maxNameLength
  /\ \E i \in 1..Len(scen.name) : scen.name[i] = "B"
  /\ out.name = out.result
  /\ Len(out.result) = maxNameLength

\* the pipeline the specification describes, one character at a time: the
\* text after the last separator ...
RefAfterLastSeparator(s) ==
  LET after == {i \in 1..Len(s) : \A j \in i..Len(s) : s[j] \notin Separators}
  IN [k \in 1..Cardinality(after) |-> s[Len(s) - Cardinality(after) + k]]

\* ... each whitespace run replaced by one underscore, every character
\* outside [A-Za-z0-9._-] deleted, letters lower-cased ...
RefClean(s) ==
  LET mark == [i \in 1..Len(s) |->
                 IF s[i] \in Whitespace
                   THEN (IF i > 1 /\ s[i - 1] \in Whitespace THEN "" ELSE "_")
                 ELSE IF s[i] = "B" THEN "b"
                 ELSE IF s[i] \in AllowedChars THEN s[i]
                 ELSE ""]
  IN SelectSeq(mark, LAMBDA c : c # "")

\* ... cut to 128 characters after the deletion, "file" when nothing is left
Reference(name) ==
  LET s == IF name = NoName THEN <<>> ELSE RefClean(RefAfterLastSeparator(name))
      t == IF Len(s) > maxNameLength THEN SubSeq(s, 1, maxNameLength) ELSE s
  IN IF t = <<>> THEN File ELSE t

\* C24: on every input sanitizeFilename returns what the reference pipeline
\* returns (basename, whitespace runs to '_', deletion, lower case,
\* truncation to 128 after the deletion, fallback "file"), and no separator
\* is left in the result.
C24_SanitizeEqualsReference ==
  [][out'.op = "sanitizeFilename"
       => /\ out'.result = Reference(out'.name)
          /\ \A i \in 1..Len(out'.result) : out'.result[i] \notin Separators
  ]_vars

\* a name with a path, whitespace, more than 128 characters in all and
\* deleted characters among its first 128 was sanitized to 128 characters
\* or fewer
C24_Witness ==
  /\ out.op = "sanitizeFilename"
  /\ out.name = scen.name
  /\ scen.name # NoName
  /\ \E i \in 1..Len(scen.name) : scen.name[i] \in Separators
  /\ Len(Basename(scen.name)) > maxNameLength
  /\ \E i \in 1..maxNameLength : Basename(scen.name)[i] \notin AllowedChars
  /\ out.result # File
  /\ Len(out.result) < maxNameLength

\* the reason of the path on which an invocation fails record d: object
\* missing, metadata unavailable, size mismatch with the expected and the
\* actual size, an error of the store, or the reason of a failed event
ReasonOfPath(d, err) ==
  \/ \E h \in Handlers :
       /\ handlers[h].pc \in {"exists", "meta", "updFailed", "catch"}
       /\ handlers[h].ev.downloadId = d
       /\ handlers'[h].pc = "idle"
       /\ \/ /\ handlers[h].ev.event = "upload_failed"
             /\ err = handlers[h].ev.reason
          \/ /\ handlers[h].ev.event = "upload_complete"
             /\ \/ err = <<"Object not found in storage after upload">> /\ objects[d] = 0
                \/ err = <<"Could not retrieve object metadata">> /\ objects[d] = 0
                \/ /\ err = <<"Size mismatch: expected", handlers[h].ev.size,
                              "got", objects[d]>>
                   /\ objects[d] # handlers[h].ev.size
                \/ err = <<StorageErrorMessage>>
  \/ /\ \A h \in Handlers : handlers'[h] = handlers[h]
     /\ out'.op = "handleUploadComplete"
     /\ err \in Reasons

\* C25: whenever a record becomes Failed it carries the reason of the path
\* that failed it: object missing after upload, metadata unavailable, size
\* mismatch with both sizes, or the reason the failed event reported; a
\* Failed record is never without a reason.
C25_FailedCarriesReason ==
  [][\A d \in DownloadIds :
       (records[d] # NoRecord /\ records[d].status # "failed"
          /\ records'[d].status = "failed")
         => /\ records'[d].error # NoError
            /\ ReasonOfPath(d, records'[d].error)
  ]_vars

\* C26: a Command without downloadId, objectKey or presignedUrl is discarded
\* without side effects: no invocation starts an upload, no event is
\* published, no object is stored and activeDownloads is unchanged.
C26_InvalidCommandDiscarded ==
  [][\A u \in Uploads, c \in AgentCommands :
       (/\ c.downloadId = 0 \/ c.objectKey = <<>> \/ c.presignedUrl = NoUrl
        /\ CommandReceive(u, c))
         => /\ UNCHANGED <<uploads, active, events, objects>>
            /\ out'.op = "handleUploadCommand"
            /\ out'.result = "invalid"
            /\ out'.attempts = 0
            /\ out'.sent = 0
  ]_vars

\* an invalid Command was discarded while a transfer was in flight
C26_Witness ==
  /\ out.op = "handleUploadCommand"
  /\ out.result = "invalid"
  /\ active # {}
  /\ \E u \in Uploads : uploads[u].pc = "sleeping"

\* C27: the expiry is checked before the transfer starts only: an invocation
\* past the guards goes on attempting and retrying, whatever the clock says,
\* until an attempt succeeds or the fifth has failed, and the failed event it
\* publishes then is never the one of the expiry guard.
C27_ExpiryCheckedOnlyBeforeStart ==
  [][\A u \in Uploads :
       uploads[u].pc \in {"uploading", "sleeping", "pubComplete", "pubFailed"}
         => /\ uploads[u].reason # <<"Presigned URL expired">>
            /\ uploads'[u].reason # <<"Presigned URL expired">>
            /\ uploads'[u] # uploads[u]
                 => /\ uploads[u].pc = "sleeping"
                      => /\ uploads'[u].pc = "uploading"
                         /\ uploads'[u].attempt = uploads[u].attempt + 1
                    /\ (uploads[u].pc = "uploading" /\ uploads[u].attempt < maxRetries)
                         => uploads'[u].pc \in {"sleeping", "pubComplete"}
                    /\ (uploads[u].pc = "uploading" /\ uploads'[u].pc = "pubFailed")
                         => /\ uploads[u].attempt = maxRetries
                            /\ uploads'[u].reason \in {UploadFailure(m) : m \in UploadErrors}
                    /\ uploads'[u].pc = "idle"
                         => events' \ events \subseteq
                              {CompleteEvent(uploads[u].cmd.downloadId, uploads[u].result),
                               FailedEvent(uploads[u].cmd.downloadId, uploads[u].reason)}
  ]_vars

\* a transfer that started before the expiry retries after it
C27_Witness ==
  \E u \in Uploads :
    /\ uploads[u].pc = "uploading"
    /\ uploads[u].attempt > 1
    /\ uploads[u].cmd.expiresAt < now

\* C28: transfers of different downloadIds do not touch each other on the
\* agent: a Command whose downloadId is not in activeDownloads passes the
\* guards and starts its upload whatever other invocations are suspended in,
\* and a step of one invocation changes no other invocation, publishes events
\* of its own downloadId only, and stores and releases nothing of another
\* downloadId.
C28_TransfersIndependent ==
  [][/\ \A u \in Uploads, c \in TransferCommands :
          (CommandReceive(u, c) /\ c.downloadId \notin active)
            => /\ uploads'[u].pc = "uploading"
               /\ uploads'[u].cmd = c
               /\ uploads'[u].attempt = 1
               /\ active' = active \cup {c.downloadId}
               /\ \A w \in Uploads \ {u} : uploads'[w] = uploads[w]
     /\ \A u \in Uploads :
          (uploads[u].pc # "idle" /\ uploads'[u] # uploads[u])
            => LET d == uploads[u].cmd.downloadId IN
               /\ \A w \in Uploads \ {u} : uploads'[w] = uploads[w]
               /\ \A e \in events' \ events : e.downloadId = d
               /\ \A x \in TransferIds \ {d} :
                    /\ objects'[x] = objects[x]
                    /\ (x \in active') = (x \in active)
               /\ out' # NoOut => out'.op = "handleUploadCommand" /\ out'.id = d
  ]_vars

\* a transfer started and completed while the transfer of another downloadId
\* was waiting in a backoff delay
C28_Witness ==
  /\ out.op = "handleUploadCommand"
  /\ out.result = "complete"
  /\ out.id \notin active
  /\ \E u \in Uploads :
       /\ uploads[u].pc = "sleeping"
       /\ uploads[u].attempt = 1
       /\ uploads[u].cmd.downloadId # out.id
       /\ uploads[u].cmd.downloadId \in active

\* C29: the record of a downloadId is stored before its Command is sent:
\* every Command on the channel, every invocation of the agent working on
\* one, every event the agent has published and every invocation of the
\* server handling one finds the record of its downloadId in the store, so
\* no event is dropped for an unknown downloadId.
C29_RecordPrecedesCommandAndEvent ==
  /\ \A c \in commands :
       /\ records[c.downloadId] # NoRecord
       /\ records[c.downloadId].objectKey = c.objectKey
  /\ \A u \in Uploads :
       uploads[u].pc # "idle" => records[uploads[u].cmd.downloadId] # NoRecord
  /\ \A e \in events : records[e.downloadId] # NoRecord
  /\ \A h \in Handlers :
       handlers[h].pc # "idle" => records[handlers[h].ev.downloadId] # NoRecord
  /\ out.op = "handleUploadComplete" => out.result = "handled"

\* the event an agent published in answer to a Command was handled and
\* settled the record
C29_Witness ==
  /\ out.op = "handleUploadComplete"
  /\ out.result = "handled"
  /\ scen.phase = "e2e"
  /\ out.id \in scen.delivered
  /\ records[out.id].status \in {"verified", "failed"}

\* the number of '/' in a text
Slashes(text) == Cardinality({i \in 1..Len(text) : text[i] = "/"})

\* C30: the objectKey of a new record reads clientId, '/', downloadId, '-',
\* sanitized file name ("file" when the request names none) and so holds
\* exactly one '/'.
C30_ObjectKeyFormat ==
  [][\A d \in DownloadIds :
       (scen.phase = "names" /\ records[d] = NoRecord /\ records'[d] # NoRecord)
         => LET key == KeyText(variant, records'[d].objectKey) IN
            /\ key = <<records'[d].clientId, "/", ToString(d), "-">> \o Reference(scen.name)
            /\ Slashes(key) = 1
  ]_vars

\* C31: when every part works, a record whose Command was sent eventually
\* becomes Verified and stays so; getArtifactUrl answers not-available in
\* every state in which the record is not Verified and returns a read
\* credential in every state in which it is.
C31_EventuallyVerified ==
  /\ \A d \in DownloadIds :
       (\E c \in commands : c.downloadId = d) ~> (records[d].status = "verified")
  /\ [](out.op = "getArtifactUrl"
          => out.result = IF records[out.id].status = "verified"
                            THEN "url" ELSE "not available")
  /\ [][\A d \in DownloadIds :
          records[d].status = "verified" => records'[d].status = "verified"]_vars

\* the record of a delivered Command was verified, the stored object having
\* the reported size, and its read credential was returned
C31_Witness ==
  /\ out.op = "getArtifactUrl"
  /\ out.result = "url"
  /\ records[out.id].status = "verified"
  /\ objects[out.id] = records[out.id].size
  /\ out.id \in Delivered

\* C32: a record has an error only while it is Failed: a Pending, Uploaded
\* or Verified record has none.
C32_ReasonOnlyWhileFailed ==
  \A d \in DownloadIds :
    records[d].status \in {"pending", "uploaded", "verified"}
      => records[d].error = NoError

\* C33: size and sha256 are written by the transition into Uploaded only: a
\* Pending record has neither, a record that goes from Pending to Failed has
\* neither, and once a record is Verified or Failed no event changes them.
C33_SizeAndDigestWrittenOnce ==
  [][\A d \in DownloadIds :
       /\ records'[d].status = "pending"
            => records'[d].size = 0 /\ records'[d].sha256 = NoSha
       /\ (records[d].status = "pending" /\ records'[d].status = "failed")
            => records'[d].size = 0 /\ records'[d].sha256 = NoSha
       /\ records[d].status \in {"verified", "failed"}
            => /\ records'[d].size = records[d].size
               /\ records'[d].sha256 = records[d].sha256
  ]_vars

\* C34: updatedAt never decreases and is never earlier than createdAt,
\* createdAt never changes, and every change of status sets updatedAt to the
\* time of the change, the changes from Uploaded to Failed of a failed
\* verification included.
C34_UpdatedAtBumped ==
  [][\A d \in DownloadIds :
       records'[d] # NoRecord
         => /\ records'[d].createdAt <= records'[d].updatedAt
            /\ records[d] # NoRecord
                 => /\ records'[d].createdAt = records[d].createdAt
                    /\ records'[d].updatedAt >= records[d].updatedAt
                    /\ records'[d].status # records[d].status
                         => records'[d].updatedAt = now
  ]_vars

\* C35: getDownloadStatus and getArtifactUrl change no record; every call of
\* getArtifactUrl that finds the record Verified asks the object store to
\* sign a URL for that call, and nothing of it is kept on the record.
C35_ReadsChangeNothing ==
  [][/\ \A d \in DownloadIds :
          GetStatus(d) \/ GetArtifactUrl(d) => UNCHANGED <<records, objects>>
     /\ \A c \in Calls, ok \in BOOLEAN :
          StatusRead(c, ok) \/ ArtifactRead(c, ok) \/ PresignGet(c, ok)
            => UNCHANGED <<records, objects>>
     /\ \A d \in DownloadIds :
          (variant = "mem" /\ GetArtifactUrl(d) /\ records[d].status = "verified")
            => /\ calls'[FreeCall].pc = "presignGet"
               /\ calls'[FreeCall].id = d
     /\ \A c \in Calls :
          (ArtifactRead(c, TRUE) /\ records[calls[c].id].status = "verified")
            => calls'[c].pc = "presignGet"
     /\ \A c \in Calls, ok \in BOOLEAN :
          PresignGet(c, ok)
            => /\ out'.asked
               /\ out'.id = calls[c].id
               /\ out'.result = IF ok THEN "url" ELSE "error"
  ]_vars

\* a URL was signed for a call on a Verified record, whose own fields hold
\* no URL other than the one of the upload
C35_Witness ==
  /\ out.op = "getArtifactUrl"
  /\ out.asked
  /\ out.result = "url"
  /\ records[out.id].status = "verified"
  /\ records[out.id].presignedUrl \in Urls \cup {NoUrl}

\* C36: the sha256 and the size of a complete event are those of the bytes
\* sent in the attempt that succeeded: the hash of an attempt is given the
\* chunks read in that attempt only, whatever earlier attempts read, and the
\* size is the number of bytes sent.
C36_DigestOfBytesSent ==
  [][\A u \in Uploads :
       /\ (uploads[u].pc = "uploading" /\ uploads'[u].pc = "pubComplete")
            => /\ uploads'[u].result.sha256 = <<"sha256 of bytes", uploads[u].read>>
               /\ uploads'[u].result.size = Len(uploads[u].read)
       /\ (uploads[u].pc = "pubComplete" /\ uploads'[u].pc = "idle")
            => events' \ events \subseteq
                 { [event |-> "upload_complete", downloadId |-> uploads[u].cmd.downloadId,
                    size |-> Len(uploads[u].read),
                    sha256 |-> <<"sha256 of bytes", uploads[u].read>>] }
  ]_vars

\* C37: the step that makes a record Verified leaves on it the size the
\* store reported to the invocation taking the step, also when another
\* invocation for the same downloadId is under way.
C37_VerifiedSizeIsReportedSize ==
  [][\A h \in Handlers :
       /\ \A a \in StatAnswers :
            (variant = "mem" /\ VerifyMetadata(h, a)
               /\ records'[handlers[h].ev.downloadId].status = "verified")
              => records'[handlers[h].ev.downloadId].size = a.size
       /\ (variant = "db" /\ DbSetResult(h, TRUE)
             /\ records'[handlers[h].ev.downloadId].status = "verified")
            => records'[handlers[h].ev.downloadId].size = handlers[h].metadata.size
  ]_vars

\* C38: the check of activeDownloads comes before the check of the expiry: a
\* Command for a downloadId whose upload is under way is discarded without
\* an event also when its expiresAt has passed, and no invocation ever
\* publishes the expiry's failed event for a downloadId in activeDownloads.
C38_DuplicateGuardBeforeExpiry ==
  [][/\ \A u \in Uploads, c \in AgentCommands :
          (/\ c.downloadId # 0 /\ c.objectKey # <<>> /\ c.presignedUrl # NoUrl
           /\ c.downloadId \in active
           /\ c.expiresAt < now
           /\ CommandReceive(u, c))
            => /\ UNCHANGED <<uploads, active, events, objects>>
               /\ out'.op = "handleUploadCommand"
               /\ out'.result = "duplicate"
               /\ out'.sent = 0
     /\ \A u \in Uploads :
          uploads'[u].pc = "pubExpired" => uploads'[u].cmd.downloadId \notin active'
  ]_vars

\* a Command that had expired was discarded as a duplicate while the upload it
\* duplicates was retrying
C38_Witness ==
  /\ out.op = "handleUploadCommand"
  /\ out.result = "duplicate"
  /\ out.id \in active
  /\ \E u \in Uploads :
       /\ uploads[u].pc \in {"uploading", "sleeping"}
       /\ uploads[u].cmd.downloadId = out.id
       /\ uploads[u].cmd.expiresAt < now

\* C39: an invocation of handleUploadCommand gets at most one event onto the
\* channel, whichever publishes raise: a step puts at most one event there and
\* the invocation whose publish it was returns with that step; when the
\* publish of the complete event raises nothing has gone out and what follows
\* is one publish of a failed event carrying the error's message, after which
\* the invocation returns whether or not that publish raised.
C39_AtMostOneEventPublished ==
  [][/\ Cardinality(events' \ events) <= 1
     /\ \A u \in Uploads :
          /\ (events' # events /\ uploads'[u] # uploads[u])
               => /\ uploads[u].pc \in {"pubComplete", "pubFailed", "pubExpired"}
                  /\ uploads'[u] = IdleUpload
                  /\ out'.op = "handleUploadCommand"
                  /\ out'.sent = 1
          /\ PublishComplete(u, FALSE)
               => /\ UNCHANGED <<events, active>>
                  /\ uploads'[u].pc = "pubFailed"
                  /\ uploads'[u].reason = <<PublishErrorMessage>>
          /\ \A ok \in BOOLEAN :
               (PublishFailed(u, ok) /\ uploads[u].reason = <<PublishErrorMessage>>)
                 => /\ uploads'[u] = IdleUpload
                    /\ out'.result = "failed"
                    /\ out'.sent = (IF ok THEN 1 ELSE 0)
                    /\ events' \ events \subseteq
                         {FailedEvent(uploads[u].cmd.downloadId, <<PublishErrorMessage>>)}
                    /\ (~ok => UNCHANGED events)
  ]_vars

\* the publish of the complete event raised after a first successful attempt,
\* the failed event went out, and the channel holds no complete event for
\* the downloadId
C39_Witness ==
  /\ out.op = "handleUploadCommand"
  /\ out.result = "failed"
  /\ out.attempts = 1
  /\ out.sent = 1
  /\ FailedEvent(out.id, <<PublishErrorMessage>>) \in events
  /\ \A e \in events : e.downloadId = out.id => e.event = "upload_failed"

\* the sums of the sleeps after 0..4 failed attempts, in ms
SleptAfter == {0, 1000, 3000, 7000, 15000}

\* C40 as stated: every call of handleUploadCommand goes on to publish, and
\* returns once one publish has been attempted.
C40_EveryCallAttemptsOneEvent ==
  [][\A u \in Uploads :
       /\ \A c \in AgentCommands :
            CommandReceive(u, c) => uploads'[u].pc \in {"uploading", "pubExpired"}
       /\ \A ok \in BOOLEAN :
            (PublishComplete(u, ok) \/ PublishFailed(u, ok)) => uploads'[u] = IdleUpload
  ]_vars

\* C40: when every upload attempt, sleep and publish settles, every
\* invocation of handleUploadCommand returns.  A Command that is invalid or a
\* duplicate returns at once with no publish; any other returns after at most
\* five attempts and four sleeps (15 s in all) out of a publish -- the only
\* one it attempted, or the failed event's after the complete event's publish
\* raised -- and its downloadId is then not in activeDownloads.
C40_CallPastGuardsTerminates ==
  /\ \A u \in Uploads : (uploads[u].pc # "idle") ~> (uploads[u].pc = "idle")
  /\ [][\A u \in Uploads :
          /\ uploads'[u].attempt <= maxRetries
          /\ uploads'[u].slept \in SleptAfter
          /\ \A c \in AgentCommands :
               (CommandReceive(u, c) /\ (~CommandValid(c) \/ c.downloadId \in active))
                 => /\ UNCHANGED <<uploads, events, active>>
                    /\ out'.sent = 0
          /\ (uploads[u].pc # "idle" /\ uploads'[u].pc = "idle")
               => /\ uploads[u].pc \in {"pubComplete", "pubFailed", "pubExpired"}
                  /\ uploads[u].pc = "pubComplete" => out'.sent = 1
                  /\ out'.attempts <= maxRetries
                  /\ out'.slept \in SleptAfter
                  /\ out'.slept <= 15000
                  /\ out'.id \notin active'
          /\ (uploads[u].pc = "pubComplete" /\ uploads'[u].pc \notin {"pubComplete", "idle"})
               => /\ uploads'[u].pc = "pubFailed"
                  /\ uploads'[u].reason = <<PublishErrorMessage>>
                  /\ UNCHANGED events
     ]_vars

\* an invocation has returned after five failed attempts and four sleeps,
\* its publish of the failed event having raised too, and its downloadId is
\* free again
C40_Witness ==
  /\ out.op = "handleUploadCommand"
  /\ out.result = "failed"
  /\ out.attempts = 5
  /\ out.slept = 15000
  /\ out.sent = 0
  /\ out.id \notin active
  /\ \A u \in Uploads : uploads[u].pc = "idle"

====
